---------------------------- MODULE Spec2Model ----------------------------
(***************************************************************************)
(* Model of the ROS (X.880 Remote Operations Service) dissector,           *)
(* epan/dissectors/asn1/ros/packet-ros-template.c: the per-conversation    *)
(* call/response correlation done by ros_match_call_response.              *)
(*                                                                         *)
(* A capture is a growing list of frames.  The first pass dissects the     *)
(* frames in order; afterwards any frame already seen may be dissected     *)
(* again (a second pass, a click in the packet list, a filter run).  The   *)
(* conversation state lives for the whole capture file and is shared by    *)
(* all the passes.                                                         *)
(***************************************************************************)
EXTENDS Integers, Sequences, FiniteSets, TLC

\* Bounds of the model.
MaxFrame == 4        \* frames in the capture
MaxMsgs == 2         \* messages in a WoW stream
MaxBody == 2         \* bytes that follow the header of a WoW message
MaxSegs == 3         \* TCP segments a WoW stream is delivered in
MaxContent == 2      \* content bytes of the BER element of a PDU body
MaxOffset == 2       \* bytes that precede the PDU body in its buffer
MaxEntries == 3      \* entries of a table of operations or errors
MaxPdu == 5          \* bytes of the buffer handed to dissect_ros
MaxTvb == 5          \* bytes of a WoW stream of arbitrary bytes

\* The conversations (address/port tuples) seen in the capture, and the
\* invoke ids their PDUs carry: two of each, so that an exchange can meet
\* another one of the same id, of another id and of another conversation.
Tuples == {"A", "B"}
InvokeIds == {0, 1}

\* A null pointer; heap addresses are 1..Len(heap).
NULL == 0

\* The capture time of frame n.  Time grows with the frame number, and the
\* gaps differ, so an elapsed time tells which two frames it was taken from.
frame_ts(n) == 2 ^ n

VARIABLES
  capture,    \* the frames read so far: [conv, isInvoke, invokeId, abs_ts]
  heap,       \* the ros_call_response_t objects allocated in file scope
  conv_data,  \* conversation -> its ros_conv_info_t (absent: none attached)
  call,       \* the arguments of the latest ros_match_call_response call
  ret,        \* the pointer that call returned (NULL or a heap address)
  items       \* the generated tree items that call added

ros_vars == <<capture, heap, conv_data, call, ret, items>>

\* The World of Warcraft dissector (epan/dissectors/packet-wow.c) on one
\* direction of one TCP connection.
VARIABLES
  wow_stream,     \* what the sender wrote: [c2s, s2c, msgs, bytes]
  wow_desegment,  \* the preference wow_preference_desegment
  wow_tcp,        \* the TCP layer: [delivered, pending_from, need]
  wow_calls,      \* the dissect_wow calls made for the latest segment
  wow_pdus,       \* every PDU handed to dissect_wow_pdu so far, in order
  wow_runs        \* two runs of dissect_wow_pdu over the same PDUs

wow_vars ==
  <<wow_stream, wow_desegment, wow_tcp, wow_calls, wow_pdus, wow_runs>>

\* The dispatch of a PDU body to a decoder (call_ros_oid_callback).
VARIABLES
  protocol_table,           \* oid -> registered ros_info_t
  ros_oid_dissector_table,  \* the oids with a handle in the "ros.oid" table
  dispatch,                 \* the latest call of call_ros_oid_callback
  lookup,                   \* a lookup in a table of operations or errors
  pdu_loop                  \* the PDU loop of the latest dissect_ros call

disp_vars ==
  <<protocol_table, ros_oid_dissector_table, dispatch, lookup, pdu_loop>>

vars == <<capture, heap, conv_data, call, ret, items,
          wow_stream, wow_desegment, wow_tcp, wow_calls, wow_pdus, wow_runs,
          protocol_table, ros_oid_dissector_table, dispatch, lookup, pdu_loop>>

----------------------------------------------------------------------------
\* The key comparisons of the two tables.

\* Variant: the response frame takes part in the comparison as well.
ros_info_equal_matched_rep(key1, key2) ==
  IF key1.req_frame # 0 /\ key2.req_frame # 0
     /\ key1.req_frame # key2.req_frame
  THEN FALSE
  ELSE IF key1.rep_frame # 0 /\ key2.rep_frame # 0
          /\ key1.rep_frame # key2.rep_frame
  THEN FALSE
  ELSE key1.invokeId = key2.invokeId

ros_info_equal_matched(key1, key2) ==
  IF key1.req_frame # 0 /\ key2.req_frame # 0
     /\ key1.req_frame # key2.req_frame
  THEN FALSE
  ELSE key1.invokeId = key2.invokeId

\* Variant: unmatched keys also differ by their request frame.
ros_info_equal_unmatched_frames(key1, key2) ==
  /\ key1.invokeId = key2.invokeId
  /\ key1.req_frame = key2.req_frame

\* Variant: the first key is compared with itself.
ros_info_equal_unmatched_self(key1, key2) ==
  key1.invokeId = key1.invokeId

ros_info_equal_unmatched(key1, key2) ==
  key1.invokeId = key2.invokeId

\* The comparison each map is created with in dissect_ros.
eql_func(eql, key1, key2) ==
  IF eql = "matched" THEN ros_info_equal_matched(key1, key2)
  ELSE ros_info_equal_unmatched(key1, key2)

----------------------------------------------------------------------------
\* wmem_map_t: a chained hash map.  All the keys of one invoke id hash to
\* the same bucket, so a map is modelled as the list of its entries in
\* chain order, each entry a key pointer and a value pointer.  eql names the
\* comparison the map was created with.

\* Index of the first entry from i on whose key equals k, or 0.
RECURSIVE map_find(_, _, _, _, _)
map_find(map, k, h, eql, i) ==
  IF i > Len(map) THEN 0
  ELSE IF eql_func(eql, k, h[map[i].key]) THEN i
  ELSE map_find(map, k, h, eql, i + 1)

wmem_map_lookup(map, k, h, eql) ==
  LET i == map_find(map, k, h, eql, 1)
  IN  IF i = 0 THEN NULL ELSE map[i].value

\* An equal key keeps its entry and gets the new value; otherwise the new
\* entry goes to the end of the chain.
wmem_map_insert(map, kp, vp, h, eql) ==
  LET i == map_find(map, h[kp], h, eql, 1)
  IN  IF i = 0 THEN Append(map, [key |-> kp, value |-> vp])
      ELSE [map EXCEPT ![i].value = vp]

wmem_map_remove(map, kp, h, eql) ==
  LET i == map_find(map, h[kp], h, eql, 1)
  IN  IF i = 0 THEN map
      ELSE SubSeq(map, 1, i - 1) \o SubSeq(map, i + 1, Len(map))

----------------------------------------------------------------------------
\* The conversation data dissect_ros attaches: two empty maps.
new_ros_info == [matched |-> <<>>, unmatched |-> <<>>]

\* A conversation that has no ROS data attached (ros_info == NULL).
no_ros_info == [attached |-> FALSE]

\* Variant: the time difference is taken the wrong way round.
annotate_swapped(rec, abs_ts) ==
  IF rec.is_request
  THEN << [hf |-> "ros.response_in", value |-> rec.rep_frame] >>
  ELSE << [hf |-> "ros.response_to", value |-> rec.req_frame],
          [hf |-> "ros.time", value |-> rec.req_time - abs_ts] >>

\* The generated items added for a returned record.
annotate(rec, abs_ts) ==
  IF rec.is_request
  THEN << [hf |-> "ros.response_in", value |-> rec.rep_frame] >>
  ELSE << [hf |-> "ros.response_to", value |-> rec.req_frame],
          [hf |-> "ros.time", value |-> abs_ts - rec.req_time] >>

----------------------------------------------------------------------------
\* ros_match_call_response, in the order of its code.  Every part yields the
\* new heap, the new conversation data, the returned pointer and the items.

\* The lookup key built on the stack (req_time is not set and never read).
make_rcr(num, invokeId, isInvoke) ==
  [invokeId |-> invokeId,
   is_request |-> isInvoke,
   req_frame |-> IF isInvoke THEN num ELSE 0,
   rep_frame |-> IF isInvoke THEN 0 ELSE num]

\* Variant: a later segment of the response moves the response frame.
found_matched_update_rep(h, info, rcrp, rcr, abs_ts) ==
  LET h1 == [h EXCEPT ![rcrp].is_request = rcr.is_request,
                      ![rcrp].rep_frame =
                         IF rcr.rep_frame # 0 THEN rcr.rep_frame ELSE @]
  IN  [heap |-> h1, info |-> info, ret |-> rcrp,
       items |-> annotate(h1[rcrp], abs_ts)]

\* Variant: a record found in the matched table keeps its direction.
found_matched_keep_direction(h, info, rcrp, rcr, abs_ts) ==
  [heap |-> h, info |-> info, ret |-> rcrp,
   items |-> annotate(h[rcrp], abs_ts)]

\* Found in the matched table: the record takes the direction of the caller.
found_matched(h, info, rcrp, rcr, abs_ts) ==
  LET h1 == [h EXCEPT ![rcrp].is_request = rcr.is_request]
  IN  [heap |-> h1, info |-> info, ret |-> rcrp,
       items |-> annotate(h1[rcrp], abs_ts)]

\* Variant: an unmatched request of the same invoke id is left in place.
add_unmatched_keep(h, info, rcr, num, abs_ts) ==
  LET old   == wmem_map_lookup(info.unmatched, rcr, h, "unmatched")
      fresh == [invokeId |-> rcr.invokeId, req_frame |-> num,
                req_time |-> abs_ts, rep_frame |-> 0, is_request |-> TRUE]
      h1    == IF old # NULL THEN h ELSE Append(h, fresh)
      um1   == IF old # NULL THEN info.unmatched
               ELSE wmem_map_insert(info.unmatched, Len(h) + 1, Len(h) + 1, h1, "unmatched")
  IN  [heap |-> h1, info |-> [info EXCEPT !.unmatched = um1],
       ret |-> NULL, items |-> <<>>]

\* Variant: the record to reuse is looked for in the matched table.
add_unmatched_wrong_table(h, info, rcr, num, abs_ts) ==
  LET old   == wmem_map_lookup(info.matched, rcr, h, "unmatched")
      um1   == IF old # NULL
               THEN wmem_map_remove(info.unmatched, old, h, "unmatched")
               ELSE info.unmatched
      rcrp  == IF old # NULL THEN old ELSE Len(h) + 1
      fresh == [invokeId |-> rcr.invokeId, req_frame |-> num,
                req_time |-> abs_ts, rep_frame |-> 0, is_request |-> TRUE]
      h1    == IF old # NULL THEN [h EXCEPT ![rcrp] = fresh]
               ELSE Append(h, fresh)
      um2   == wmem_map_insert(um1, rcrp, rcrp, h1, "unmatched")
  IN  [heap |-> h1, info |-> [info EXCEPT !.unmatched = um2],
       ret |-> NULL, items |-> <<>>]

\* Variant: the new request falls through to the annotation code.
add_unmatched_fallthrough(h, info, rcr, num, abs_ts) ==
  LET old   == wmem_map_lookup(info.unmatched, rcr, h, "unmatched")
      um1   == IF old # NULL
               THEN wmem_map_remove(info.unmatched, old, h, "unmatched")
               ELSE info.unmatched
      rcrp  == IF old # NULL THEN old ELSE Len(h) + 1
      fresh == [invokeId |-> rcr.invokeId, req_frame |-> num,
                req_time |-> abs_ts, rep_frame |-> 0, is_request |-> TRUE]
      h1    == IF old # NULL THEN [h EXCEPT ![rcrp] = fresh]
               ELSE Append(h, fresh)
      um2   == wmem_map_insert(um1, rcrp, rcrp, h1, "unmatched")
  IN  [heap |-> h1, info |-> [info EXCEPT !.unmatched = um2],
       ret |-> rcrp, items |-> annotate(h1[rcrp], abs_ts)]

\* Variant: a reused record keeps the time of the request it held.
add_unmatched_keep_time(h, info, rcr, num, abs_ts) ==
  LET old   == wmem_map_lookup(info.unmatched, rcr, h, "unmatched")
      um1   == IF old # NULL
               THEN wmem_map_remove(info.unmatched, old, h, "unmatched")
               ELSE info.unmatched
      rcrp  == IF old # NULL THEN old ELSE Len(h) + 1
      fresh == [invokeId |-> rcr.invokeId, req_frame |-> num,
                req_time |-> IF old # NULL THEN h[old].req_time ELSE abs_ts,
                rep_frame |-> 0, is_request |-> TRUE]
      h1    == IF old # NULL THEN [h EXCEPT ![rcrp] = fresh]
               ELSE Append(h, fresh)
      um2   == wmem_map_insert(um1, rcrp, rcrp, h1, "unmatched")
  IN  [heap |-> h1, info |-> [info EXCEPT !.unmatched = um2],
       ret |-> NULL, items |-> <<>>]

\* Variant: the response frame of a new request is set to its own frame.
add_unmatched_rep_frame(h, info, rcr, num, abs_ts) ==
  LET old   == wmem_map_lookup(info.unmatched, rcr, h, "unmatched")
      um1   == IF old # NULL
               THEN wmem_map_remove(info.unmatched, old, h, "unmatched")
               ELSE info.unmatched
      rcrp  == IF old # NULL THEN old ELSE Len(h) + 1
      fresh == [invokeId |-> rcr.invokeId, req_frame |-> num,
                req_time |-> abs_ts, rep_frame |-> num, is_request |-> TRUE]
      h1    == IF old # NULL THEN [h EXCEPT ![rcrp] = fresh]
               ELSE Append(h, fresh)
      um2   == wmem_map_insert(um1, rcrp, rcrp, h1, "unmatched")
  IN  [heap |-> h1, info |-> [info EXCEPT !.unmatched = um2],
       ret |-> NULL, items |-> <<>>]

\* A request that is not matched: it replaces any unmatched request of the
\* same invoke id, reusing that record when there is one.
add_unmatched(h, info, rcr, num, abs_ts) ==
  LET old   == wmem_map_lookup(info.unmatched, rcr, h, "unmatched")
      um1   == IF old # NULL
               THEN wmem_map_remove(info.unmatched, old, h, "unmatched")
               ELSE info.unmatched
      rcrp  == IF old # NULL THEN old ELSE Len(h) + 1
      fresh == [invokeId |-> rcr.invokeId, req_frame |-> num,
                req_time |-> abs_ts, rep_frame |-> 0, is_request |-> TRUE]
      h1    == IF old # NULL THEN [h EXCEPT ![rcrp] = fresh]
               ELSE Append(h, fresh)
      um2   == wmem_map_insert(um1, rcrp, rcrp, h1, "unmatched")
  IN  [heap |-> h1, info |-> [info EXCEPT !.unmatched = um2],
       ret |-> NULL, items |-> <<>>]

\* Variant: the promoted record is not taken out of the unmatched table.
match_unmatched_noremove(h, info, rcr, num, abs_ts) ==
  LET rcrp == wmem_map_lookup(info.unmatched, rcr, h, "unmatched")
  IN  IF rcrp = NULL
      THEN [heap |-> h, info |-> info, ret |-> NULL, items |-> <<>>]
      ELSE IF h[rcrp].rep_frame = 0
      THEN LET h1  == [h EXCEPT ![rcrp].rep_frame = num,
                                ![rcrp].is_request = FALSE]
               m1  == wmem_map_insert(info.matched, rcrp, rcrp, h1, "matched")
           IN  [heap |-> h1, info |-> [info EXCEPT !.matched = m1],
                ret |-> rcrp, items |-> annotate(h1[rcrp], abs_ts)]
      ELSE [heap |-> h, info |-> info, ret |-> rcrp,
            items |-> annotate(h[rcrp], abs_ts)]

\* Variant: the promoted record keeps the direction of the request.
match_unmatched_keep_direction(h, info, rcr, num, abs_ts) ==
  LET rcrp == wmem_map_lookup(info.unmatched, rcr, h, "unmatched")
  IN  IF rcrp = NULL
      THEN [heap |-> h, info |-> info, ret |-> NULL, items |-> <<>>]
      ELSE IF h[rcrp].rep_frame = 0
      THEN LET um1 == wmem_map_remove(info.unmatched, rcrp, h, "unmatched")
               h1  == [h EXCEPT ![rcrp].rep_frame = num]
               m1  == wmem_map_insert(info.matched, rcrp, rcrp, h1, "matched")
           IN  [heap |-> h1, info |-> [matched |-> m1, unmatched |-> um1],
                ret |-> rcrp, items |-> annotate(h1[rcrp], abs_ts)]
      ELSE [heap |-> h, info |-> info, ret |-> rcrp,
            items |-> annotate(h[rcrp], abs_ts)]

\* A result that is not matched yet: the unmatched request of its invoke id,
\* if any, moves to the matched table.
match_unmatched(h, info, rcr, num, abs_ts) ==
  LET rcrp == wmem_map_lookup(info.unmatched, rcr, h, "unmatched")
  IN  IF rcrp = NULL
      THEN [heap |-> h, info |-> info, ret |-> NULL, items |-> <<>>]
      ELSE IF h[rcrp].rep_frame = 0
      THEN LET um1 == wmem_map_remove(info.unmatched, rcrp, h, "unmatched")
               h1  == [h EXCEPT ![rcrp].rep_frame = num,
                                ![rcrp].is_request = FALSE]
               m1  == wmem_map_insert(info.matched, rcrp, rcrp, h1, "matched")
           IN  [heap |-> h1, info |-> [matched |-> m1, unmatched |-> um1],
                ret |-> rcrp, items |-> annotate(h1[rcrp], abs_ts)]
      ELSE [heap |-> h, info |-> info, ret |-> rcrp,
            items |-> annotate(h[rcrp], abs_ts)]

\* Variant: a request is never looked up in the matched table.
ros_match_call_response_nolookup(h, cd, conv, num, abs_ts, invokeId, isInvoke) ==
  IF conv \notin DOMAIN cd
  THEN [heap |-> h, info |-> no_ros_info, ret |-> NULL, items |-> <<>>]
  ELSE LET info == cd[conv]
           rcr  == make_rcr(num, invokeId, isInvoke)
           rcrp == wmem_map_lookup(info.matched, rcr, h, "matched")
       IN  IF isInvoke THEN add_unmatched(h, info, rcr, num, abs_ts)
           ELSE IF rcrp # NULL THEN found_matched(h, info, rcrp, rcr, abs_ts)
           ELSE match_unmatched(h, info, rcr, num, abs_ts)

\* Variant: a conversation without ROS data gets it from the correlator.
ros_match_call_response_attach(h, cd, conv, num, abs_ts, invokeId, isInvoke) ==
  LET info == IF conv \in DOMAIN cd THEN cd[conv] ELSE new_ros_info
      rcr  == make_rcr(num, invokeId, isInvoke)
      rcrp == wmem_map_lookup(info.matched, rcr, h, "matched")
  IN  IF rcrp # NULL THEN found_matched(h, info, rcrp, rcr, abs_ts)
      ELSE IF isInvoke THEN add_unmatched(h, info, rcr, num, abs_ts)
      ELSE match_unmatched(h, info, rcr, num, abs_ts)

\* Variant: a result is never looked up in the matched table.
ros_match_call_response_results_new(h, cd, conv, num, abs_ts, invokeId, isInvoke) ==
  IF conv \notin DOMAIN cd
  THEN [heap |-> h, info |-> no_ros_info, ret |-> NULL, items |-> <<>>]
  ELSE LET info == cd[conv]
           rcr  == make_rcr(num, invokeId, isInvoke)
           rcrp == wmem_map_lookup(info.matched, rcr, h, "matched")
       IN  IF ~isInvoke THEN match_unmatched(h, info, rcr, num, abs_ts)
           ELSE IF rcrp # NULL THEN found_matched(h, info, rcrp, rcr, abs_ts)
           ELSE add_unmatched(h, info, rcr, num, abs_ts)

\* cd is the conversation data of the capture; a conversation that is not in
\* its domain has no ROS data attached.
ros_match_call_response(h, cd, conv, num, abs_ts, invokeId, isInvoke) ==
  IF conv \notin DOMAIN cd
  THEN [heap |-> h, info |-> no_ros_info, ret |-> NULL, items |-> <<>>]
  ELSE LET info == cd[conv]
           rcr  == make_rcr(num, invokeId, isInvoke)
           rcrp == wmem_map_lookup(info.matched, rcr, h, "matched")
       IN  IF rcrp # NULL THEN found_matched(h, info, rcrp, rcr, abs_ts)
           ELSE IF isInvoke THEN add_unmatched(h, info, rcr, num, abs_ts)
           ELSE match_unmatched(h, info, rcr, num, abs_ts)

\* Variant: the conversation data is attached anew on every call.
dissect_ros_fresh(num, f) ==
  LET cd1 == [c \in DOMAIN conv_data \cup {f.conv} |->
                IF c = f.conv THEN new_ros_info ELSE conv_data[c]]
      r   == ros_match_call_response(heap, cd1, f.conv, num, f.abs_ts,
                                     f.invokeId, f.isInvoke)
  IN  /\ heap' = r.heap
      /\ conv_data' = [cd1 EXCEPT ![f.conv] = r.info]
      /\ ret' = r.ret
      /\ items' = r.items
      /\ call' = [num |-> num, conv |-> f.conv, invokeId |-> f.invokeId,
                  isInvoke |-> f.isInvoke, abs_ts |-> f.abs_ts]

\* Variant: every conversation works on the data of one conversation.
dissect_ros_shared(num, f) ==
  LET one == CHOOSE c \in Tuples : TRUE
      cd1 == IF one \in DOMAIN conv_data THEN conv_data
             ELSE [c \in DOMAIN conv_data \cup {one} |->
                     IF c = one THEN new_ros_info ELSE conv_data[c]]
      r   == ros_match_call_response(heap, cd1, one, num, f.abs_ts,
                                     f.invokeId, f.isInvoke)
  IN  /\ heap' = r.heap
      /\ conv_data' = [cd1 EXCEPT ![one] = r.info]
      /\ ret' = r.ret
      /\ items' = r.items
      /\ call' = [num |-> num, conv |-> f.conv, invokeId |-> f.invokeId,
                  isInvoke |-> f.isInvoke, abs_ts |-> f.abs_ts]

\* dissect_ros on frame number num: attach the conversation data on first
\* use, then dissect the PDU, whose Invoke or ReturnResult/ReturnError part
\* calls ros_match_call_response.
dissect_ros(num, f) ==
  LET cd1 == IF f.conv \in DOMAIN conv_data THEN conv_data
             ELSE [c \in DOMAIN conv_data \cup {f.conv} |->
                     IF c = f.conv THEN new_ros_info ELSE conv_data[c]]
      r   == ros_match_call_response(heap, cd1, f.conv, num, f.abs_ts,
                                     f.invokeId, f.isInvoke)
  IN  /\ heap' = r.heap
      /\ conv_data' = [cd1 EXCEPT ![f.conv] = r.info]
      /\ ret' = r.ret
      /\ items' = r.items
      /\ call' = [num |-> num, conv |-> f.conv, invokeId |-> f.invokeId,
                  isInvoke |-> f.isInvoke, abs_ts |-> f.abs_ts]

----------------------------------------------------------------------------
\* The WoW frame assembler.  A tvbuff is the sequence of its bytes; offset o
\* of a tvbuff is element o + 1.  Stream positions count from 0 as well.

CMD_AUTH_LOGON_CHALLENGE == 0
CMD_AUTH_LOGON_PROOF == 1
CMD_REALM_LIST == 16

\* pinfo->desegment_len value that asks for one more segment.
DESEGMENT_ONE_MORE_SEGMENT == 268435455

Min(a, b) == IF a < b THEN a ELSE b

\* tvb_get_letohs: an exception when the two bytes are not both inside the
\* buffer; a negative offset counts from the end of the buffer.
tvb_get_letohs(tvb, offset) ==
  LET o == IF offset >= 0 THEN offset ELSE Len(tvb) + offset
  IN  IF o < 0 \/ o + 2 > Len(tvb)
      THEN [exception |-> TRUE, value |-> 0]
      ELSE [exception |-> FALSE, value |-> tvb[o + 1] + 256 * tvb[o + 2]]

\* The offset of the size field selected by the command byte and the ports
\* of the packet, or -1.
size_field_offset_of(dir, cmd) ==
  LET k1 == IF dir.s2c /\ cmd = CMD_REALM_LIST THEN 1 ELSE -1
  IN  IF dir.c2s /\ cmd = CMD_AUTH_LOGON_CHALLENGE THEN 2 ELSE k1

\* get_wow_pdu_len: the command byte is read at offset, the size field at
\* size_field_offset from the start of the buffer.
get_wow_pdu_len(dir, tvb, offset) ==
  LET cmd == tvb[offset + 1]
      size_field_offset == size_field_offset_of(dir, cmd)
      pkt_len == tvb_get_letohs(tvb, size_field_offset)
  IN  [offset |-> offset,
       size_field_offset |-> size_field_offset,
       exception |-> pkt_len.exception,
       len |-> IF pkt_len.exception THEN 0
               ELSE pkt_len.value + size_field_offset + 2]

\* dissect_wow_pdu is handed the bytes offset .. offset + caplen - 1 of the
\* buffer as a PDU of reported length len.
dissect_wow_pdu(offset, caplen, len) ==
  [offset |-> offset, caplen |-> caplen, len |-> len]

\* What a call of dissect_wow has done so far.
no_result ==
  [pdus |-> <<>>, lens |-> <<>>, exception |-> FALSE,
   desegment_offset |-> 0, desegment_len |-> 0]

\* The loop of tcp_dissect_pdus with get_wow_pdu_len and dissect_wow_pdu,
\* from offset on.  can_desegment: the preference is on and TCP allows it.
RECURSIVE tcp_dissect_pdus(_, _, _, _, _, _)
tcp_dissect_pdus(dir, tvb, can_desegment, fixed_len, offset, acc) ==
  LET remaining == Len(tvb) - offset
  IN  IF remaining <= 0 THEN acc
      ELSE IF can_desegment /\ remaining < fixed_len
      THEN [acc EXCEPT !.desegment_offset = offset,
                       !.desegment_len = DESEGMENT_ONE_MORE_SEGMENT]
      ELSE
        LET g    == get_wow_pdu_len(dir, tvb, offset)
            acc1 == [acc EXCEPT !.lens = Append(@, g)]
            plen == g.len
        IN  IF g.exception THEN [acc1 EXCEPT !.exception = TRUE]
            ELSE IF plen = 0
            THEN [acc1 EXCEPT !.desegment_offset = offset,
                              !.desegment_len = DESEGMENT_ONE_MORE_SEGMENT]
            ELSE IF plen < fixed_len THEN [acc1 EXCEPT !.exception = TRUE]
            ELSE IF can_desegment /\ remaining < plen
            THEN [acc1 EXCEPT !.desegment_offset = offset,
                              !.desegment_len = plen - remaining]
            ELSE tcp_dissect_pdus(dir, tvb, can_desegment, fixed_len,
                   offset + plen,
                   [acc1 EXCEPT !.pdus =
                      Append(@, dissect_wow_pdu(offset, Min(remaining, plen),
                                                plen))])

\* dissect_wow that never lets tcp_dissect_pdus reassemble.
dissect_wow_no_desegment(dir, tvb, desegment) ==
  LET size_field_offset == size_field_offset_of(dir, tvb[1])
  IN  IF size_field_offset > -1
      THEN tcp_dissect_pdus(dir, tvb, FALSE, size_field_offset + 2, 0,
                            no_result)
      ELSE [no_result EXCEPT
              !.pdus = << dissect_wow_pdu(0, Len(tvb), Len(tvb)) >>]

\* dissect_wow that frames every buffer with tcp_dissect_pdus.
dissect_wow_always_framed(dir, tvb, desegment) ==
  tcp_dissect_pdus(dir, tvb, desegment,
                   size_field_offset_of(dir, tvb[1]) + 2, 0, no_result)

\* dissect_wow that takes the fixed header to end before the size field's
\* second byte.
dissect_wow_short_header(dir, tvb, desegment) ==
  LET size_field_offset == size_field_offset_of(dir, tvb[1])
  IN  IF size_field_offset > -1
      THEN tcp_dissect_pdus(dir, tvb, desegment, size_field_offset + 1, 0,
                            no_result)
      ELSE [no_result EXCEPT
              !.pdus = << dissect_wow_pdu(0, Len(tvb), Len(tvb)) >>]

\* dissect_wow on one buffer.
dissect_wow(dir, tvb, desegment) ==
  LET cmd == tvb[1]
      size_field_offset == size_field_offset_of(dir, cmd)
  IN  IF size_field_offset > -1
      THEN tcp_dissect_pdus(dir, tvb, desegment, size_field_offset + 2, 0,
                            no_result)
      ELSE [no_result EXCEPT
              !.pdus = << dissect_wow_pdu(0, Len(tvb), Len(tvb)) >>]

\* The data dissect_wow_pdu keeps for a conversation: the protocol version,
\* once it is attached.
CMD_AUTH_RECONNECT_CHALLENGE == 2
no_protocol_version == [attached |-> FALSE, version |-> 0]

\* parse_logon_challenge_client_to_server stores the byte after the command;
\* reading it in a PDU of one byte is an exception, after the store of the
\* default.
parse_logon_challenge_client_to_server(tvb, protocol_version) ==
  IF Len(tvb) < 2 THEN protocol_version
  ELSE [protocol_version EXCEPT !.version = tvb[2]]

\* dissect_wow_pdu on the data of the conversation: without a tree it
\* returns before the data is looked up.
dissect_wow_pdu_version(dir, tvb, tree, protocol_version) ==
  LET cmd == tvb[1]
      pv  == IF protocol_version.attached THEN protocol_version
             ELSE [attached |-> TRUE, version |-> 2]
  IN  IF ~tree THEN protocol_version
      ELSE IF cmd = CMD_AUTH_RECONNECT_CHALLENGE /\ ~dir.s2c /\ dir.c2s
      THEN parse_logon_challenge_client_to_server(tvb, pv)
      ELSE IF cmd = CMD_AUTH_LOGON_CHALLENGE /\ dir.c2s
      THEN parse_logon_challenge_client_to_server(tvb, pv)
      ELSE pv

\* Two runs over the same PDUs of a conversation, each with its own tree
\* argument for every PDU.
no_runs ==
  [n |-> 0, dir |-> [c2s |-> FALSE, s2c |-> FALSE], tvb |-> <<>>,
   tree |-> <<FALSE, FALSE>>,
   protocol_version |-> <<no_protocol_version, no_protocol_version>>]

\* The encodings of the messages of a stream.  A message with a size field
\* has body bytes after its header; the other messages are a command byte
\* followed by body bytes.  Every body byte has the value of a command.
RECURSIVE Fill(_, _)
Fill(n, b) == IF n = 0 THEN <<>> ELSE <<b>> \o Fill(n - 1, b)

Encode(dir, m) ==
  IF ~m.sized THEN <<CMD_AUTH_LOGON_PROOF>> \o Fill(m.body, CMD_REALM_LIST)
  ELSE IF dir.c2s
  THEN <<CMD_AUTH_LOGON_CHALLENGE, 8, m.body % 256, m.body \div 256>>
       \o Fill(m.body, CMD_REALM_LIST)
  ELSE <<CMD_REALM_LIST, m.body % 256, m.body \div 256>>
       \o Fill(m.body, CMD_REALM_LIST)

RECURSIVE EncodeAll(_, _)
EncodeAll(dir, ms) ==
  IF ms = <<>> THEN <<>>
  ELSE Encode(dir, Head(ms)) \o EncodeAll(dir, Tail(ms))

Directions == {[c2s |-> TRUE, s2c |-> FALSE], [c2s |-> FALSE, s2c |-> TRUE]}
Messages == [sized : BOOLEAN, body : 0..MaxBody]
MessageLists == UNION {[1..n -> Messages] : n \in 1..MaxMsgs}

\* Before any segment of the stream is delivered.
WowStart(dir, ms, desegment) ==
  /\ wow_stream = [c2s |-> dir.c2s, s2c |-> dir.s2c, msgs |-> ms,
                   bytes |-> EncodeAll(dir, ms)]
  /\ wow_desegment = desegment
  /\ wow_tcp = [segments |-> 0, seg_from |-> 0, delivered |-> 0,
                pending_from |-> 0, need |-> 0]
  /\ wow_calls = <<>>
  /\ wow_pdus = <<>>
  /\ wow_runs = no_runs

\* No WoW traffic.
WowIdle ==
  WowStart([c2s |-> FALSE, s2c |-> FALSE], <<>>, TRUE)

\* One call of dissect_wow, on the stream bytes start .. end - 1.
wow_call(start, end) ==
  [tvb_start |-> start, tvb_len |-> end - start,
   result |-> dissect_wow(wow_stream,
                          SubSeq(wow_stream.bytes, start + 1, end),
                          wow_desegment)]

\* The TCP layer after a call: the bytes from desegment_offset on are kept
\* when the dissector asks for more, nothing is kept otherwise.
after_call(c, end) ==
  IF ~c.result.exception /\ c.result.desegment_len # 0
  THEN [pending_from |-> c.tvb_start + c.result.desegment_offset,
        need |-> c.result.desegment_len]
  ELSE [pending_from |-> end, need |-> 0]

\* The TCP layer on the newly arrived stream bytes from .. to - 1, with the
\* bytes pending_from .. from - 1 kept and need more bytes asked for.  With
\* nothing asked for the new bytes are dissected alone; with one more
\* segment asked for the kept bytes and the new bytes are dissected
\* together; otherwise the layer waits for need bytes, dissects the kept
\* bytes with them, and goes on with the bytes that follow.  An exception
\* ends the dissection of the segment.
RECURSIVE tcp_deliver(_, _, _, _, _)
tcp_deliver(pending_from, need, from, to, calls) ==
  IF from = to
  THEN [pending_from |-> pending_from, need |-> need, calls |-> calls]
  ELSE IF need = 0 \/ need = DESEGMENT_ONE_MORE_SEGMENT
  THEN LET c == wow_call(IF need = 0 THEN from ELSE pending_from, to)
           t == after_call(c, to)
       IN  [pending_from |-> t.pending_from, need |-> t.need,
            calls |-> Append(calls, c)]
  ELSE IF need > to - from
  THEN [pending_from |-> pending_from, need |-> need - (to - from),
        calls |-> calls]
  ELSE LET c == wow_call(pending_from, from + need)
           t == after_call(c, from + need)
       IN  IF c.result.exception
           THEN [pending_from |-> to, need |-> 0, calls |-> Append(calls, c)]
           ELSE tcp_deliver(t.pending_from, t.need, from + need, to,
                            Append(calls, c))

\* A PDU of a call, with its offset turned into a stream position.
AtStreamPos(start, pdu) ==
  [start |-> start + pdu.offset, caplen |-> pdu.caplen, len |-> pdu.len]

RECURSIVE PdusOf(_)
PdusOf(calls) ==
  IF calls = <<>> THEN <<>>
  ELSE [j \in 1..Len(Head(calls).result.pdus) |->
          AtStreamPos(Head(calls).tvb_start, Head(calls).result.pdus[j])]
       \o PdusOf(Tail(calls))

\* The PDUs handed to dissect_wow_pdu: a command, alone or followed by a
\* version byte.
VersionPdus ==
  {<<cmd>> : cmd \in {CMD_AUTH_LOGON_CHALLENGE, CMD_AUTH_RECONNECT_CHALLENGE}}
  \cup
  {<<cmd, v>> : cmd \in {CMD_AUTH_LOGON_CHALLENGE, CMD_AUTH_LOGON_PROOF,
                         CMD_AUTH_RECONNECT_CHALLENGE, CMD_REALM_LIST},
                v \in {2, 8}}

\* The next PDU of the conversation is dissected in both runs.
DissectPdu ==
  \E dir \in [c2s : BOOLEAN, s2c : BOOLEAN], tvb \in VersionPdus,
     tree \in BOOLEAN \X BOOLEAN :
    /\ wow_runs.n < MaxMsgs
    /\ dir.c2s \/ dir.s2c
    /\ wow_runs' =
         [n |-> wow_runs.n + 1, dir |-> dir, tvb |-> tvb, tree |-> tree,
          protocol_version |->
            << dissect_wow_pdu_version(dir, tvb, tree[1],
                                       wow_runs.protocol_version[1]),
               dissect_wow_pdu_version(dir, tvb, tree[2],
                                       wow_runs.protocol_version[2]) >>]
    /\ UNCHANGED <<wow_stream, wow_desegment, wow_tcp, wow_calls, wow_pdus>>
    /\ UNCHANGED <<ros_vars, disp_vars>>

\* The next n bytes of the stream arrive in one TCP segment.
WowSegment ==
  \E n \in 1..(Len(wow_stream.bytes) - wow_tcp.delivered) :
    LET from == wow_tcp.delivered
        to   == wow_tcp.delivered + n
        t    == tcp_deliver(wow_tcp.pending_from, wow_tcp.need, from, to,
                            <<>>)
    IN  /\ wow_tcp.segments < MaxSegs
        /\ UNCHANGED <<wow_stream, wow_desegment, wow_runs>>
        /\ wow_tcp' = [segments |-> wow_tcp.segments + 1, seg_from |-> from,
                       delivered |-> to, pending_from |-> t.pending_from,
                       need |-> t.need]
        /\ wow_calls' = t.calls
        /\ wow_pdus' = wow_pdus \o PdusOf(t.calls)
        /\ UNCHANGED <<ros_vars, disp_vars>>

----------------------------------------------------------------------------
\* The dispatch registry.  A decoder is a positive number, the null pointer
\* is NULL, and the last entry of a table has the decoder (dissector_t)(-1).

SENTINEL == -1

\* packet-ros.h: session->ros_op holds the kind of PDU, the type of
\* operation and the operation code.
ROS_OP_PDU_SHIFT == 2 ^ 28
ROS_OP_TYPE_SHIFT == 2 ^ 24
ROS_OP_ARGUMENT == 1
ROS_OP_RESULT == 2
ROS_OP_ERROR == 3
ROS_OP_REJECT == 4
ROS_OP_BIND == 1
ROS_OP_UNBIND == 2
ROS_OP_INVOKE == 3
op_ros_bind == -1
err_ros_bind == -2

ROS_OP_PDU(ros_op) == (ros_op \div ROS_OP_PDU_SHIFT) % 16
ROS_OP_TYPE(ros_op) == (ros_op \div ROS_OP_TYPE_SHIFT) % 16
ROS_OP_OPCODE(ros_op) == ros_op % ROS_OP_TYPE_SHIFT

\* ros_lookup_opr_dissector that goes on after an entry of the code whose
\* decoder is null, and after the sentinel.
RECURSIVE ros_lookup_opr_dissector_any(_, _, _)
ros_lookup_opr_dissector_any(opcode_lcl, operations, argument) ==
  IF operations = <<>> THEN NULL
  ELSE LET pdu == IF argument THEN Head(operations).arg_pdu
                  ELSE Head(operations).res_pdu
       IN  IF Head(operations).opcode = opcode_lcl /\ pdu > NULL THEN pdu
           ELSE ros_lookup_opr_dissector_any(opcode_lcl, Tail(operations),
                                             argument)

RECURSIVE ros_lookup_opr_dissector(_, _, _)
ros_lookup_opr_dissector(opcode_lcl, operations, argument) ==
  IF operations = <<>> THEN NULL
  ELSE IF Head(operations).arg_pdu = SENTINEL THEN NULL
  ELSE IF Head(operations).opcode = opcode_lcl
  THEN IF argument THEN Head(operations).arg_pdu
       ELSE Head(operations).res_pdu
  ELSE ros_lookup_opr_dissector(opcode_lcl, Tail(operations), argument)

RECURSIVE ros_lookup_err_dissector(_, _)
ros_lookup_err_dissector(errcode, errors) ==
  IF errors = <<>> THEN NULL
  ELSE IF Head(errors).err_pdu = SENTINEL THEN NULL
  ELSE IF Head(errors).errcode = errcode THEN Head(errors).err_pdu
  ELSE ros_lookup_err_dissector(errcode, Tail(errors))

\* opcode_lcl of ros_try_string: the code the tables are searched for.  A
\* bind takes the in-built codes, anything else the opcode bits.
opcode_lcl_of(ros_op) ==
  IF ROS_OP_TYPE(ros_op) = ROS_OP_BIND
  THEN IF ROS_OP_PDU(ros_op) = ROS_OP_ERROR
       THEN err_ros_bind ELSE op_ros_bind
  ELSE ROS_OP_OPCODE(ros_op)


\* Variant: the argument and the result decoder of an operation are taken
\* the wrong way round.
ros_opdissector_swapped(table, oid, session) ==
  IF session.present /\ oid # "" /\ oid \in DOMAIN table
  THEN LET rinfo == table[oid]
           opcode_lcl == opcode_lcl_of(session.ros_op)
       IN  CASE ROS_OP_PDU(session.ros_op) = ROS_OP_ARGUMENT ->
                  ros_lookup_opr_dissector(opcode_lcl,
                                           rinfo.opr_code_dissectors, FALSE)
             [] ROS_OP_PDU(session.ros_op) = ROS_OP_RESULT ->
                  ros_lookup_opr_dissector(opcode_lcl,
                                           rinfo.opr_code_dissectors, TRUE)
             [] ROS_OP_PDU(session.ros_op) = ROS_OP_ERROR ->
                  ros_lookup_err_dissector(opcode_lcl,
                                           rinfo.err_code_dissectors)
             [] OTHER -> NULL
  ELSE NULL

\* The decoder ros_try_string selects, or NULL.
ros_opdissector(table, oid, session) ==
  IF session.present /\ oid # "" /\ oid \in DOMAIN table
  THEN LET rinfo == table[oid]
           opcode_lcl == opcode_lcl_of(session.ros_op)
       IN  CASE ROS_OP_PDU(session.ros_op) = ROS_OP_ARGUMENT ->
                  ros_lookup_opr_dissector(opcode_lcl,
                                           rinfo.opr_code_dissectors, TRUE)
             [] ROS_OP_PDU(session.ros_op) = ROS_OP_RESULT ->
                  ros_lookup_opr_dissector(opcode_lcl,
                                           rinfo.opr_code_dissectors, FALSE)
             [] ROS_OP_PDU(session.ros_op) = ROS_OP_ERROR ->
                  ros_lookup_err_dissector(opcode_lcl,
                                           rinfo.err_code_dissectors)
             [] OTHER -> NULL
  ELSE NULL

\* ros_try_string: what the selected decoder returns, or 0.  returns is what
\* the decoder returns when it is called.
ros_try_string(table, oid, session, returns) ==
  LET opdissector == ros_opdissector(table, oid, session)
  IN  [opdissector |-> opdissector,
       len |-> IF opdissector # NULL THEN returns ELSE 0]

\* dissector_try_string on the "ros.oid" table: what the handle registered
\* for the oid returns, or 0 without a handle.
dissector_try_string(handles, oid, returns) ==
  IF oid \in handles THEN returns ELSE 0

\* dissect_unknown_ber: the element that starts at offset, an identifier
\* byte, a length byte and the content; returns the offset of its end.
dissect_unknown_ber(tvb, offset) ==
  IF offset + 2 > Len(tvb) \/ offset + 2 + tvb[offset + 2] > Len(tvb)
  THEN [exception |-> TRUE, from |-> offset, len |-> 0]
  ELSE [exception |-> FALSE, from |-> offset,
        len |-> offset + 2 + tvb[offset + 2]]

\* call_ros_oid_callback: the body is the buffer from offset on; the stages
\* are tried while they return 0.
call_ros_oid_callback(table, handles, oid, tvb, offset, session, op_ret, h_ret) ==
  LET next_tvb == SubSeq(tvb, offset + 1, Len(tvb))
      try      == ros_try_string(table, oid, session, op_ret)
      len2     == dissector_try_string(handles, oid, h_ret)
      unknown  == try.len = 0 /\ len2 = 0
      ber      == dissect_unknown_ber(next_tvb, offset)
      len      == IF try.len # 0 THEN try.len
                  ELSE IF len2 # 0 THEN len2 ELSE ber.len
  IN  [oid |-> oid, tvb |-> tvb, offset |-> offset, session |-> session,
       done |-> TRUE,
       opdissector |-> try.opdissector,
       try_len |-> try.len,
       tried_table |-> try.len = 0,
       table_handle |-> try.len = 0 /\ oid \in handles,
       table_len |-> IF try.len = 0 THEN len2 ELSE 0,
       diagnostics |-> IF unknown THEN 1 ELSE 0,
       unknown_ber |-> unknown,
       ber_from |-> IF unknown THEN ber.from ELSE 0,
       exception |-> unknown /\ ber.exception,
       return |-> offset + len]

\* The registrations protocol modules make: tables of operations and of
\* errors, either of which may be absent.
RosInfos ==
  { [opr_code_dissectors |->
       << [opcode |-> 0, arg_pdu |-> 1, res_pdu |-> 2],
          [opcode |-> op_ros_bind, arg_pdu |-> 3, res_pdu |-> NULL],
          [opcode |-> 0, arg_pdu |-> SENTINEL, res_pdu |-> SENTINEL] >>,
     err_code_dissectors |->
       << [errcode |-> 1, err_pdu |-> 4],
          [errcode |-> 0, err_pdu |-> SENTINEL] >>],
    [opr_code_dissectors |-> <<>>,
     err_code_dissectors |->
       << [errcode |-> 0, err_pdu |-> 5],
          [errcode |-> err_ros_bind, err_pdu |-> 6],
          [errcode |-> 0, err_pdu |-> SENTINEL] >>] }

Oids == {"2.6.0.1.6", "2.5.3.1"}
Opcodes == {0, 1}

\* The sessions a caller passes: absent, or with any kind of PDU, bind,
\* unbind or invoke, and any operation code.
Sessions ==
  {[present |-> FALSE, ros_op |-> 0]} \cup
  {[present |-> TRUE,
    ros_op |-> pdu * ROS_OP_PDU_SHIFT + type * ROS_OP_TYPE_SHIFT + op] :
     pdu \in {ROS_OP_ARGUMENT, ROS_OP_RESULT, ROS_OP_ERROR, ROS_OP_REJECT},
     type \in {ROS_OP_BIND, ROS_OP_UNBIND, ROS_OP_INVOKE}, op \in Opcodes}

\* The PDU bodies: one BER element, an identifier byte, a length byte and
\* content bytes.
Bodies ==
  {<<4, n>> \o Fill(n, b) : n \in 0..MaxContent, b \in {0, 1}}

\* What a decoder may return for a body of n bytes: nothing consumed, or
\* all of it.
DecoderReturns(n) == {0, n}

\* A call of call_ros_oid_callback that is still to be made.
to_dispatch(oid, tvb, offset, session) ==
  [oid |-> oid, tvb |-> tvb, offset |-> offset, session |-> session,
   done |-> FALSE,
   opdissector |-> NULL, try_len |-> 0, tried_table |-> FALSE,
   table_handle |-> FALSE, table_len |-> 0,
   diagnostics |-> 0, unknown_ber |-> FALSE, ber_from |-> 0,
   exception |-> FALSE, return |-> 0]

\* The tables a protocol module may hand over: up to MaxEntries entries, the
\* sentinel, and what the memory after the sentinel holds.  A table that is
\* absent is the empty sequence.
OprEntries ==
  [opcode : Opcodes, arg_pdu : {NULL, 1, SENTINEL}, res_pdu : {NULL, 2}]
ErrEntries == [errcode : Opcodes, err_pdu : {NULL, 4, SENTINEL}]

TablesOver(entries, sentinel) ==
  {<<>>} \cup
  UNION {{t \in [1..n -> entries \cup {sentinel}] : t[n] = sentinel} :
           n \in 1..(MaxEntries + 1)}

OprTables ==
  TablesOver(OprEntries,
             [opcode |-> 0, arg_pdu |-> SENTINEL, res_pdu |-> SENTINEL])
ErrTables == TablesOver(ErrEntries, [errcode |-> 0, err_pdu |-> SENTINEL])

\* A lookup that is still to be made.
to_lookup(kind, operations, errors, code, argument) ==
  [kind |-> kind, operations |-> operations, errors |-> errors,
   code |-> code, argument |-> argument, done |-> FALSE, result |-> NULL]

LookupIdle ==
  lookup = [to_lookup("opr", <<>>, <<>>, 0, TRUE) EXCEPT !.done = TRUE]

\* ros_try_string looks the code up in the table of its kind of PDU.
Lookup ==
  /\ ~lookup.done
  /\ lookup' =
       [lookup EXCEPT
          !.done = TRUE,
          !.result =
            IF lookup.kind = "opr"
            THEN ros_lookup_opr_dissector(lookup.code, lookup.operations,
                                          lookup.argument)
            ELSE ros_lookup_err_dissector(lookup.code, lookup.errors)]
  /\ UNCHANGED <<protocol_table, ros_oid_dissector_table, dispatch>>
  /\ UNCHANGED <<ros_vars, wow_vars, pdu_loop>>

\* The PDU loop of dissect_ros.  The buffer is given by its length, and a
\* step of the decoder by the number of bytes it consumes.

\* dissect_ros_ROS: the offset behind the bytes the decoder consumed.
dissect_ros_ROS(offset, consumed) == offset + consumed

tvb_reported_length_remaining(length, offset) ==
  IF offset <= length THEN length - offset ELSE 0

\* dissect_ros called with a buffer of length bytes; data is whether the
\* ACSE dissector passed its application context.
to_pdu_loop(length, data) ==
  [length |-> length, data |-> data, pc |-> "start", offset |-> 0,
   steps |-> <<>>, diagnostics |-> 0, unknown |-> <<>>, return |-> -1]

PduIdle ==
  pdu_loop = [to_pdu_loop(0, FALSE) EXCEPT !.pc = "done"]

\* Variant: the loop goes on after a decoder that consumed nothing.
pdu_iteration_nobreak(st, consumed) ==
  LET old_offset == st.offset
      offset == dissect_ros_ROS(st.offset, consumed)
  IN  IF offset = old_offset
      THEN [st EXCEPT !.steps = Append(@, consumed),
                      !.diagnostics = @ + 1,
                      !.unknown = Append(@, [from |-> offset,
                                             to |-> st.length])]
      ELSE [st EXCEPT !.offset = offset, !.steps = Append(@, consumed)]

\* One turn of the loop: the decoder is called, and when the offset has not
\* moved the rest of the buffer is marked 'Unknown ROS PDU', handed to
\* dissect_unknown_ber, and the loop is left.
pdu_iteration(st, consumed) ==
  LET old_offset == st.offset
      offset == dissect_ros_ROS(st.offset, consumed)
  IN  IF offset = old_offset
      THEN [st EXCEPT !.steps = Append(@, consumed),
                      !.diagnostics = @ + 1,
                      !.unknown = Append(@, [from |-> offset,
                                             to |-> st.length]),
                      !.pc = "break"]
      ELSE [st EXCEPT !.offset = offset, !.steps = Append(@, consumed)]

\* Entry of dissect_ros: without application context it returns 0.
PduStart ==
  /\ pdu_loop.pc = "start"
  /\ pdu_loop' = IF pdu_loop.data THEN [pdu_loop EXCEPT !.pc = "loop"]
                 ELSE [pdu_loop EXCEPT !.pc = "done", !.return = 0]
  /\ UNCHANGED <<protocol_table, ros_oid_dissector_table, dispatch, lookup>>
  /\ UNCHANGED <<ros_vars, wow_vars>>

\* The loop condition holds and the body runs once.
PduIteration ==
  /\ pdu_loop.pc = "loop"
  /\ tvb_reported_length_remaining(pdu_loop.length, pdu_loop.offset) > 0
  /\ \E consumed \in 0..(pdu_loop.length - pdu_loop.offset) :
       pdu_loop' = pdu_iteration(pdu_loop, consumed)
  /\ UNCHANGED <<protocol_table, ros_oid_dissector_table, dispatch, lookup>>
  /\ UNCHANGED <<ros_vars, wow_vars>>

\* The loop is over, by its condition or by the break: the length of the
\* buffer is returned.
PduReturn ==
  /\ \/ pdu_loop.pc = "break"
     \/ /\ pdu_loop.pc = "loop"
        /\ tvb_reported_length_remaining(pdu_loop.length, pdu_loop.offset) <= 0
  /\ pdu_loop' = [pdu_loop EXCEPT !.pc = "done", !.return = pdu_loop.length]
  /\ UNCHANGED <<protocol_table, ros_oid_dissector_table, dispatch, lookup>>
  /\ UNCHANGED <<ros_vars, wow_vars>>

\* Nothing registered, nothing to dispatch.
DispIdle ==
  /\ LookupIdle
  /\ PduIdle
  /\ protocol_table = << >>
  /\ ros_oid_dissector_table = {}
  /\ dispatch = [to_dispatch("", <<>>, 0, [present |-> FALSE, ros_op |-> 0])
                   EXCEPT !.done = TRUE]

\* register_ros_protocol_info: wmem_map_insert on a table of strings.
register_ros_protocol_info ==
  \E oid \in Oids, rinfo \in RosInfos :
    /\ ~dispatch.done
    /\ protocol_table' =
         [o \in DOMAIN protocol_table \cup {oid} |->
            IF o = oid THEN rinfo ELSE protocol_table[o]]
    /\ UNCHANGED <<ros_oid_dissector_table, dispatch, lookup>>
    /\ UNCHANGED <<ros_vars, wow_vars, pdu_loop>>

\* register_ros_oid_dissector_handle.
register_ros_oid_dissector_handle ==
  \E oid \in Oids :
    /\ ~dispatch.done
    /\ ros_oid_dissector_table' = ros_oid_dissector_table \cup {oid}
    /\ UNCHANGED <<protocol_table, dispatch, lookup>>
    /\ UNCHANGED <<ros_vars, wow_vars, pdu_loop>>

\* The caller dispatches the body that starts at offset of its buffer,
\* after the protocol modules have registered.
Dispatch ==
  \E op_returns \in DecoderReturns(Len(dispatch.tvb) - dispatch.offset),
     handle_returns \in DecoderReturns(Len(dispatch.tvb) - dispatch.offset) :
    /\ ~dispatch.done
    /\ dispatch' =
         call_ros_oid_callback(protocol_table, ros_oid_dissector_table,
                               dispatch.oid, dispatch.tvb, dispatch.offset,
                               dispatch.session, op_returns, handle_returns)
    /\ UNCHANGED <<protocol_table, ros_oid_dissector_table, lookup>>
    /\ UNCHANGED <<ros_vars, wow_vars, pdu_loop>>

----------------------------------------------------------------------------
Init ==
  /\ capture = <<>>
  /\ heap = <<>>
  /\ conv_data = << >>
  /\ call = [num |-> 0, conv |-> "A", invokeId |-> 0, isInvoke |-> FALSE,
             abs_ts |-> 0]
  /\ ret = NULL
  /\ items = <<>>
  /\ WowIdle
  /\ DispIdle

\* The first pass reads the next frame of the file and dissects it.
FirstPass ==
  /\ Len(capture) < MaxFrame
  /\ \E c \in Tuples, k \in BOOLEAN, i \in InvokeIds :
       LET f == [conv |-> c, isInvoke |-> k, invokeId |-> i,
                 abs_ts |-> frame_ts(Len(capture) + 1)]
       IN  /\ capture' = Append(capture, f)
           /\ dissect_ros(Len(capture) + 1, f)
           /\ UNCHANGED wow_vars
           /\ UNCHANGED disp_vars

\* A frame read before is dissected again.
Redissect ==
  \E n \in 1..Len(capture) :
    /\ UNCHANGED capture
    /\ dissect_ros(n, capture[n])
    /\ UNCHANGED wow_vars
    /\ UNCHANGED disp_vars

Next == FirstPass \/ Redissect

Spec == Init /\ [][Next]_vars

\* The first pass reaches the end of the file, and frames keep being
\* dissected again for as long as the file is open.
FairSpec == Spec /\ WF_vars(FirstPass) /\ WF_vars(Redissect)

\* The correlator on its own.  dissect_ros attaches the conversation data
\* before it decodes, and a PDU that is neither an invoke nor a result ends
\* there; ros_match_call_response is called for the next frame of any
\* conversation, with or without ROS data.
Attach ==
  \E c \in Tuples :
    /\ c \notin DOMAIN conv_data
    /\ conv_data' = [d \in DOMAIN conv_data \cup {c} |->
                       IF d = c THEN new_ros_info ELSE conv_data[d]]
    /\ UNCHANGED <<capture, heap, call, ret, items>>
    /\ UNCHANGED wow_vars
    /\ UNCHANGED disp_vars

Correlate ==
  /\ Len(capture) < MaxFrame
  /\ \E c \in Tuples, k \in BOOLEAN, i \in InvokeIds :
       LET num == Len(capture) + 1
           f == [conv |-> c, isInvoke |-> k, invokeId |-> i,
                 abs_ts |-> frame_ts(num)]
           r == ros_match_call_response(heap, conv_data, c, num, f.abs_ts,
                                        i, k)
       IN  /\ capture' = Append(capture, f)
           /\ heap' = r.heap
           /\ conv_data' =
                IF r.info = no_ros_info THEN conv_data
                ELSE [d \in DOMAIN conv_data \cup {c} |->
                        IF d = c THEN r.info ELSE conv_data[d]]
           /\ ret' = r.ret
           /\ items' = r.items
           /\ call' = [num |-> num, conv |-> c, invokeId |-> i,
                       isInvoke |-> k, abs_ts |-> f.abs_ts]
           /\ UNCHANGED wow_vars
           /\ UNCHANGED disp_vars

CorrNext == Attach \/ Correlate

CorrSpec == Init /\ [][CorrNext]_vars

\* One direction of a WoW connection: any list of messages, cut into
\* segments at any byte positions, with the preference on or off.
WowInit ==
  /\ capture = <<>>
  /\ heap = <<>>
  /\ conv_data = << >>
  /\ call = [num |-> 0, conv |-> "A", invokeId |-> 0, isInvoke |-> FALSE,
             abs_ts |-> 0]
  /\ ret = NULL
  /\ items = <<>>
  /\ \E dir \in Directions, ms \in MessageLists, d \in BOOLEAN :
       WowStart(dir, ms, d)
  /\ DispIdle

WowNext == WowSegment

WowSpec == WowInit /\ [][WowNext]_vars

\* One direction of a TCP connection on the WoW port that carries any
\* bytes: the port may be the source, the destination or both, and a byte
\* is a command with a length field, a length byte or any other value.
WowPorts ==
  {d \in [c2s : BOOLEAN, s2c : BOOLEAN] : d.c2s \/ d.s2c}

WowBytes == {CMD_AUTH_LOGON_CHALLENGE, CMD_REALM_LIST, 255}

ByteStreams == UNION {[1..n -> WowBytes] : n \in 1..MaxTvb}

FrameInit ==
  /\ capture = <<>>
  /\ heap = <<>>
  /\ conv_data = << >>
  /\ call = [num |-> 0, conv |-> "A", invokeId |-> 0, isInvoke |-> FALSE,
             abs_ts |-> 0]
  /\ ret = NULL
  /\ items = <<>>
  /\ \E dir \in WowPorts, bytes \in ByteStreams, d \in BOOLEAN :
       /\ wow_stream = [c2s |-> dir.c2s, s2c |-> dir.s2c, msgs |-> <<>>,
                        bytes |-> bytes]
       /\ wow_desegment = d
       /\ wow_tcp = [segments |-> 0, seg_from |-> 0, delivered |-> 0,
                     pending_from |-> 0, need |-> 0]
       /\ wow_calls = <<>>
       /\ wow_pdus = <<>>
       /\ wow_runs = no_runs
  /\ DispIdle

FrameNext == WowSegment

FrameSpec == FrameInit /\ [][FrameNext]_vars

\* The PDUs of one conversation, dissected in two runs.
VersionNext == DissectPdu

VersionSpec == Init /\ [][VersionNext]_vars

\* Protocol modules register, then one PDU body is dispatched: any oid,
\* session, body and offset.
DispInit ==
  /\ capture = <<>>
  /\ heap = <<>>
  /\ conv_data = << >>
  /\ call = [num |-> 0, conv |-> "A", invokeId |-> 0, isInvoke |-> FALSE,
             abs_ts |-> 0]
  /\ ret = NULL
  /\ items = <<>>
  /\ WowIdle
  /\ LookupIdle
  /\ PduIdle
  /\ protocol_table = << >>
  /\ ros_oid_dissector_table = {}
  /\ \E oid \in Oids \cup {""}, session \in Sessions, body \in Bodies,
        offset \in 0..MaxOffset :
       dispatch = to_dispatch(oid, Fill(offset, 48) \o body, offset, session)

DispNext ==
  \/ register_ros_protocol_info
  \/ register_ros_oid_dissector_handle
  \/ Dispatch

DispSpec == DispInit /\ [][DispNext]_vars

\* One lookup: any table of operations with any code and either side, or
\* any table of errors with any code.
LookupInit ==
  /\ capture = <<>>
  /\ heap = <<>>
  /\ conv_data = << >>
  /\ call = [num |-> 0, conv |-> "A", invokeId |-> 0, isInvoke |-> FALSE,
             abs_ts |-> 0]
  /\ ret = NULL
  /\ items = <<>>
  /\ WowIdle
  /\ PduIdle
  /\ protocol_table = << >>
  /\ ros_oid_dissector_table = {}
  /\ dispatch = [to_dispatch("", <<>>, 0, [present |-> FALSE, ros_op |-> 0])
                   EXCEPT !.done = TRUE]
  /\ \/ \E t \in OprTables, code \in Opcodes, argument \in BOOLEAN :
          lookup = to_lookup("opr", t, <<>>, code, argument)
     \/ \E t \in ErrTables, code \in Opcodes :
          lookup = to_lookup("err", <<>>, t, code, TRUE)

LookupNext == Lookup

LookupSpec == LookupInit /\ [][LookupNext]_vars

\* dissect_ros is called with a buffer of any length, with or without
\* application context, and runs to its return.
PduInit ==
  /\ capture = <<>>
  /\ heap = <<>>
  /\ conv_data = << >>
  /\ call = [num |-> 0, conv |-> "A", invokeId |-> 0, isInvoke |-> FALSE,
             abs_ts |-> 0]
  /\ ret = NULL
  /\ items = <<>>
  /\ WowIdle
  /\ LookupIdle
  /\ protocol_table = << >>
  /\ ros_oid_dissector_table = {}
  /\ dispatch = [to_dispatch("", <<>>, 0, [present |-> FALSE, ros_op |-> 0])
                   EXCEPT !.done = TRUE]
  /\ \E length \in 0..MaxPdu, data \in BOOLEAN :
       pdu_loop = to_pdu_loop(length, data)

PduNext ==
  \/ PduStart
  \/ PduIteration
  \/ PduReturn

\* The dissector runs on: a step that can be taken is taken.
PduSpec == PduInit /\ [][PduNext]_vars /\ WF_vars(PduNext)

----------------------------------------------------------------------------
\* Vocabulary of the properties.  cd and h are a value of conv_data and heap.

Keys(map) == {map[k].key : k \in 1..Len(map)}

\* The records of invoke id i in the unmatched / matched table of c.
Pending(cd, h, c, i) ==
  IF c \in DOMAIN cd
  THEN {a \in Keys(cd[c].unmatched) : h[a].invokeId = i}
  ELSE {}

Completed(cd, h, c, i) ==
  IF c \in DOMAIN cd
  THEN {a \in Keys(cd[c].matched) : h[a].invokeId = i}
  ELSE {}

\* The frames of the capture that belong to conversation c and invoke id i.
FramesOf(c, i) ==
  {n \in 1..Len(capture) : capture[n].conv = c /\ capture[n].invokeId = i}

\* f is the k-th frame (k = 1, 2, ...) of conversation c and invoke id i.
IsNth(f, k, c, i) ==
  /\ f \in FramesOf(c, i)
  /\ Cardinality({n \in FramesOf(c, i) : n < f}) = k - 1

IsInvokeFrame(n) == capture[n].isInvoke
IsResultFrame(n) == ~capture[n].isInvoke

----------------------------------------------------------------------------
\* C1.  After a first invoke/result cycle of an invoke id (frames f1, f2), a
\* new invoke of the same id at f5 followed by a result of that id at f6 is
\* correlated to the new invoke: the record returned for the result at f6
\* has req_frame = f5, not the req_frame = f1 of the earlier cycle.
C1_NewCycleMatchesNewInvoke ==
  \A c \in Tuples, i \in InvokeIds :
    \A f1, f2, f5, f6 \in 1..Len(capture) :
      ( /\ IsNth(f1, 1, c, i) /\ IsInvokeFrame(f1)
        /\ IsNth(f2, 2, c, i) /\ IsResultFrame(f2)
        /\ IsNth(f5, 3, c, i) /\ IsInvokeFrame(f5)
        /\ IsNth(f6, 4, c, i) /\ IsResultFrame(f6)
        /\ call.num = f6 )
      => (ret # NULL /\ heap[ret].req_frame = f5)

----------------------------------------------------------------------------
\* C3.  Last invoke wins.  With no matched record of invoke id i: an invoke
\* of i that finds an unmatched invoke of i replaces it, silently (nothing
\* returned, no item added), so that the unmatched table holds exactly one
\* record of i, with the frame of the new invoke; and a result of i takes
\* the unmatched record as it is, so it answers the latest invoke.
C3_InvokeStep ==
  LET c == call'.conv
      i == call'.invokeId
  IN  ( /\ call'.isInvoke
        /\ Completed(conv_data, heap, c, i) = {}
        /\ Pending(conv_data, heap, c, i) # {} )
      => /\ ret' = NULL
         /\ items' = <<>>
         /\ conv_data'[c].matched = conv_data[c].matched
         /\ Cardinality({k \in 1..Len(conv_data'[c].unmatched) :
               heap'[conv_data'[c].unmatched[k].key].invokeId = i}) = 1
         /\ \A a \in Pending(conv_data', heap', c, i) :
               /\ heap'[a].req_frame = call'.num
               /\ heap'[a].req_time = call'.abs_ts
               /\ heap'[a].rep_frame = 0

C3_ResultStep ==
  LET c == call'.conv
      i == call'.invokeId
  IN  ( /\ ~call'.isInvoke
        /\ Completed(conv_data, heap, c, i) = {}
        /\ Pending(conv_data, heap, c, i) # {} )
      => /\ ret' \in Pending(conv_data, heap, c, i)
         /\ heap'[ret'].req_frame = heap[ret'].req_frame
         /\ heap'[ret'].rep_frame = call'.num
         /\ items'[1] = [hf |-> "ros.response_to",
                         value |-> heap[ret'].req_frame]

C3_LastInvokeWins == [][C3_InvokeStep /\ C3_ResultStep]_vars

\* Frames a < b are invokes of one id, never answered, and the result that
\* follows them has just been matched to b.
C3_Witness ==
  \E c \in Tuples, i \in InvokeIds :
    \E a, b \in 1..Len(capture) :
      /\ IsNth(a, 1, c, i) /\ IsInvokeFrame(a)
      /\ IsNth(b, 2, c, i) /\ IsInvokeFrame(b)
      /\ IsNth(call.num, 3, c, i) /\ ~call.isInvoke
      /\ ret # NULL
      /\ heap[ret].req_frame = b
      /\ Pending(conv_data, heap, c, i) = {}

----------------------------------------------------------------------------
\* C4.  When the first two frames of an invoke id in a conversation are an
\* invoke at fq and a result at fr, dissecting the result returns a record
\* annotated "response to fq" with the time ts(fr) - ts(fq), and dissecting
\* the invoke again returns a record annotated "response in fr".
C4_Annotations ==
  \A c \in Tuples, i \in InvokeIds :
    \A fq, fr \in 1..Len(capture) :
      ( /\ IsNth(fq, 1, c, i) /\ IsInvokeFrame(fq)
        /\ IsNth(fr, 2, c, i) /\ IsResultFrame(fr) )
      => /\ call.num = fr =>
              /\ ret # NULL
              /\ items = << [hf |-> "ros.response_to", value |-> fq],
                            [hf |-> "ros.time",
                             value |-> capture[fr].abs_ts - capture[fq].abs_ts] >>
         /\ call.num = fq =>
              /\ ret # NULL
              /\ heap[ret].req_frame = fq
              /\ heap[ret].rep_frame = fr
              /\ items = << [hf |-> "ros.response_in", value |-> fr] >>

\* The invoke of a completed exchange has just been dissected again.
C4_Witness ==
  \E c \in Tuples, i \in InvokeIds :
    \E fr \in 1..Len(capture) :
      /\ IsNth(call.num, 1, c, i) /\ call.isInvoke
      /\ IsNth(fr, 2, c, i) /\ IsResultFrame(fr)
      /\ ret # NULL
      /\ items = << [hf |-> "ros.response_in", value |-> fr] >>

----------------------------------------------------------------------------
\* C9.  In every state the unmatched table of every conversation holds at
\* most one record per invoke id.
C9_OnePendingPerId ==
  \A c \in DOMAIN conv_data, i \in InvokeIds :
    Cardinality({k \in 1..Len(conv_data[c].unmatched) :
                   heap[conv_data[c].unmatched[k].key].invokeId = i}) <= 1

\* An invoke has just replaced an earlier unanswered invoke of its id.
C9_Witness ==
  \E c \in Tuples, i \in InvokeIds :
    \E a \in 1..Len(capture) :
      /\ IsNth(a, 1, c, i) /\ IsInvokeFrame(a)
      /\ IsNth(call.num, 2, c, i) /\ call.isInvoke
      /\ \E r \in Pending(conv_data, heap, c, i) :
           heap[r].req_frame = call.num

----------------------------------------------------------------------------
\* C2 as stated.  Every record put into the unmatched table is removed from
\* it exactly once: it does leave the table (whenever it is there, it is
\* later not there), and it leaves it either by promotion to the matched
\* table or by eviction, never both.
PendingAt(c, i, f) ==
  \E a \in Pending(conv_data, heap, c, i) : heap[a].req_frame = f

\* The record at address a, unmatched under invoke id i in conversation c
\* before the step, is no longer that unmatched record after it.
C2_Gone(c, i, a) ==
  ~(a \in Pending(conv_data', heap', c, i) /\ heap'[a] = heap[a])

\* A result of (c, i) moved it to the matched table and returned it.
C2_Promoted(c, i, a) ==
  /\ ~call'.isInvoke /\ call'.conv = c /\ call'.invokeId = i
  /\ ret' = a
  /\ a \in Completed(conv_data', heap', c, i)
  /\ a \notin Keys(conv_data'[c].unmatched)
  /\ heap'[a].req_frame = heap[a].req_frame
  /\ heap'[a].rep_frame = call'.num

\* An invoke of (c, i) from another frame took its place (and its storage).
C2_Evicted(c, i, a) ==
  /\ call'.isInvoke /\ call'.conv = c /\ call'.invokeId = i
  /\ ret' = NULL
  /\ a \notin Keys(conv_data'[c].matched)
  /\ Pending(conv_data', heap', c, i) = {a}
  /\ heap'[a].req_frame = call'.num
  /\ heap'[a].req_frame # heap[a].req_frame
  /\ heap'[a].rep_frame = 0

C2_RemovalStep ==
  \A c \in DOMAIN conv_data, i \in InvokeIds :
    \A a \in Pending(conv_data, heap, c, i) :
      C2_Gone(c, i, a) =>
        \/ (C2_Promoted(c, i, a) /\ ~C2_Evicted(c, i, a))
        \/ (C2_Evicted(c, i, a) /\ ~C2_Promoted(c, i, a))

C2_RemovedExactlyOnce ==
  /\ [][C2_RemovalStep]_vars
  /\ \A c \in Tuples, i \in InvokeIds, f \in 1..MaxFrame :
       []<>~PendingAt(c, i, f)

\* C2 as amended.  A record may stay in the unmatched table for the rest of
\* the capture; whenever a record leaves the unmatched table, it leaves by
\* exactly one of promotion (a result of its id) and eviction (an invoke of
\* its id from another frame), never both.
C2_RemovedByOneCause == [][C2_RemovalStep]_vars

\* One id of a conversation had its first invoke evicted by its second, and
\* another id of the same conversation has just been promoted.
C2_Witness ==
  \E c \in Tuples, i \in InvokeIds, j \in InvokeIds :
    \E a, b \in 1..Len(capture) :
      /\ i # j
      /\ IsNth(a, 1, c, i) /\ IsInvokeFrame(a)
      /\ IsNth(b, 2, c, i) /\ IsInvokeFrame(b)
      /\ PendingAt(c, i, b)
      /\ call.conv = c /\ call.invokeId = j /\ ~call.isInvoke
      /\ ret # NULL
      /\ heap[ret].rep_frame = call.num
      /\ Pending(conv_data, heap, c, j) = {}

----------------------------------------------------------------------------
\* C5.  A result dissected right after a result of the same conversation and
\* invoke id that returned a record returns the same record, with the same
\* req_frame and rep_frame, and leaves the heap and both tables as the first
\* call left them.
C5_Step ==
  ( /\ call.num # 0 /\ ~call.isInvoke /\ ret # NULL
    /\ ~call'.isInvoke
    /\ call'.conv = call.conv /\ call'.invokeId = call.invokeId )
  => /\ ret' = ret
     /\ heap'[ret'].req_frame = heap[ret].req_frame
     /\ heap'[ret'].rep_frame = heap[ret].rep_frame
     /\ heap' = heap
     /\ conv_data' = conv_data

C5_ResultIdempotent == [][C5_Step]_vars

\* A result of a completed exchange has returned the record although it
\* comes from another frame than the one that completed it.
C5_Witness ==
  /\ call.num # 0 /\ ~call.isInvoke
  /\ ret # NULL
  /\ heap[ret].rep_frame # call.num
  /\ heap[ret].invokeId = call.invokeId
  /\ ret \in Completed(conv_data, heap, call.conv, call.invokeId)

----------------------------------------------------------------------------
\* C6.  A result of invoke id i in a conversation that has neither a matched
\* nor an unmatched record of i returns NULL, adds no item, and leaves the
\* heap and every table unchanged (a conversation seen for the first time
\* gets its two empty tables).
C6_Step ==
  LET c == call'.conv
      i == call'.invokeId
  IN  ( /\ ~call'.isInvoke
        /\ Completed(conv_data, heap, c, i) = {}
        /\ Pending(conv_data, heap, c, i) = {} )
      => /\ ret' = NULL
         /\ items' = <<>>
         /\ heap' = heap
         /\ \A x \in DOMAIN conv_data : conv_data'[x] = conv_data[x]
         /\ c \notin DOMAIN conv_data => conv_data'[c] = new_ros_info

C6_CorrelationMiss == [][C6_Step]_vars

\* A result found nothing for its id in a conversation that holds a record
\* of another id.
C6_Witness ==
  /\ call.num # 0 /\ ~call.isInvoke
  /\ ret = NULL
  /\ Completed(conv_data, heap, call.conv, call.invokeId) = {}
  /\ Pending(conv_data, heap, call.conv, call.invokeId) = {}
  /\ \E j \in InvokeIds : Pending(conv_data, heap, call.conv, j) # {}

----------------------------------------------------------------------------
\* C7 as stated.  An invoke whose (invoke id, frame) is the (invokeId,
\* req_frame) of a matched record gets that record back unchanged in every
\* field, is_request included; nothing is added to either table.
C7_Found(c, i, a) ==
  /\ call'.isInvoke /\ call'.conv = c /\ call'.invokeId = i
  /\ a \in Completed(conv_data, heap, c, i)
  /\ heap[a].req_frame = call'.num

C7_InvokeFoundUnchanged ==
  [][\A c \in Tuples, i \in InvokeIds, a \in 1..Len(heap) :
       C7_Found(c, i, a) =>
         /\ ret' = a
         /\ heap' = heap
         /\ conv_data' = conv_data]_vars

\* C7 as amended.  The record is returned with invokeId, req_frame, req_time
\* and rep_frame unchanged and with is_request set to true (the direction
\* of the PDU being dissected); no record is allocated and both tables stay
\* as they were.
C7_InvokeFoundSetsDirection ==
  [][\A c \in Tuples, i \in InvokeIds, a \in 1..Len(heap) :
       C7_Found(c, i, a) =>
         /\ ret' = a
         /\ heap' = [heap EXCEPT ![a].is_request = TRUE]
         /\ conv_data' = conv_data]_vars

\* The invoke of a completed exchange was dissected again and got its
\* record, now marked as a request.
C7_Witness ==
  /\ call.isInvoke
  /\ ret # NULL
  /\ ret \in Completed(conv_data, heap, call.conv, call.invokeId)
  /\ heap[ret].req_frame = call.num
  /\ heap[ret].rep_frame # 0
  /\ heap[ret].is_request

----------------------------------------------------------------------------
\* C8 as stated.  A result whose invoke id has a matched record with a
\* non-zero rep_frame gets that record back unchanged: rep_frame stays and no
\* other field is modified; the unmatched table is not touched.
C8_Found(c, i, a) ==
  /\ ~call'.isInvoke /\ call'.conv = c /\ call'.invokeId = i
  /\ a \in Completed(conv_data, heap, c, i)
  /\ heap[a].rep_frame # 0

C8_ResultFoundUnchanged ==
  [][\A c \in Tuples, i \in InvokeIds, a \in 1..Len(heap) :
       C8_Found(c, i, a) =>
         /\ ret' = a
         /\ heap' = heap
         /\ conv_data' = conv_data]_vars

\* C8 as amended.  The record is returned with invokeId, req_frame, req_time
\* and rep_frame unchanged (rep_frame stays the frame of the first matching
\* result) and with is_request set to false; both tables stay as they were.
C8_ResultFoundSetsDirection ==
  [][\A c \in Tuples, i \in InvokeIds, a \in 1..Len(heap) :
       C8_Found(c, i, a) =>
         /\ ret' = a
         /\ heap' = [heap EXCEPT ![a].is_request = FALSE]
         /\ conv_data' = conv_data]_vars

\* A result from a later frame than the one that completed the exchange got
\* the completed record while an invoke of the same id was waiting.
C8_Witness ==
  /\ call.num # 0 /\ ~call.isInvoke
  /\ ret # NULL
  /\ ret \in Completed(conv_data, heap, call.conv, call.invokeId)
  /\ heap[ret].rep_frame # 0
  /\ heap[ret].rep_frame < call.num
  /\ ~heap[ret].is_request
  /\ Pending(conv_data, heap, call.conv, call.invokeId) # {}

----------------------------------------------------------------------------
\* C10.  A record that is in a matched table with req_frame and rep_frame
\* both set stays in that table, and no step changes its req_frame or its
\* rep_frame.
C10_Step ==
  \A c \in DOMAIN conv_data :
    \A a \in Keys(conv_data[c].matched) :
      (heap[a].req_frame # 0 /\ heap[a].rep_frame # 0)
      => /\ a \in Keys(conv_data'[c].matched)
         /\ heap'[a].req_frame = heap[a].req_frame
         /\ heap'[a].rep_frame = heap[a].rep_frame

C10_CompletedFramesFrozen == [][C10_Step]_vars

\* A completed record has met a later invoke and a later result of its id.
C10_Witness ==
  \E c \in Tuples, i \in InvokeIds :
    \E a \in Completed(conv_data, heap, c, i) :
      \E m, n \in FramesOf(c, i) :
        /\ heap[a].rep_frame < m /\ IsInvokeFrame(m)
        /\ m < n /\ IsResultFrame(n)
        /\ heap[a].req_frame # 0 /\ heap[a].rep_frame # 0

----------------------------------------------------------------------------
\* C11.  Every record is in exactly one table of exactly one conversation:
\* no record is in an unmatched and in a matched table at once, and a record
\* that is in a matched table is not in an unmatched table after any step
\* (it moves from unmatched to matched only).
TablesOf(cd, a) ==
  {<<c, "unmatched">> : c \in {x \in DOMAIN cd : a \in Keys(cd[x].unmatched)}}
  \cup
  {<<c, "matched">> : c \in {x \in DOMAIN cd : a \in Keys(cd[x].matched)}}

C11_InOneTable ==
  \A a \in 1..Len(heap) : Cardinality(TablesOf(conv_data, a)) = 1

C11_NeverBack ==
  \A c \in DOMAIN conv_data :
    \A a \in Keys(conv_data[c].matched) :
      /\ a \in Keys(conv_data'[c].matched)
      /\ a \notin Keys(conv_data'[c].unmatched)

C11_ExactlyOneTable == []C11_InOneTable /\ [][C11_NeverBack]_vars

\* A matched record of an id shares its conversation with an unmatched
\* record of the same id, and the invoke of the matched one was dissected
\* again.
C11_Witness ==
  \E c \in Tuples, i \in InvokeIds :
    /\ Completed(conv_data, heap, c, i) # {}
    /\ Pending(conv_data, heap, c, i) # {}
    /\ call.conv = c /\ call.invokeId = i /\ call.isInvoke
    /\ ret \in Completed(conv_data, heap, c, i)

----------------------------------------------------------------------------
\* C12.  A record is returned only for a completed match: a returned record
\* has req_frame and rep_frame both non-zero, and a call that returns NULL
\* adds no response_in, response_to or time item.
C12_AnnotationOnlyWhenMatched ==
  /\ ret # NULL => (heap[ret].req_frame # 0 /\ heap[ret].rep_frame # 0)
  /\ ret = NULL => items = <<>>
  /\ items # <<>> => ret # NULL

\* An invoke replaced an unmatched invoke of its id and returned nothing.
C12_Witness ==
  /\ call.isInvoke
  /\ ret = NULL
  /\ items = <<>>
  /\ \E n \in FramesOf(call.conv, call.invokeId) :
       n < call.num /\ IsInvokeFrame(n)
  /\ PendingAt(call.conv, call.invokeId, call.num)

----------------------------------------------------------------------------
\* Vocabulary of the WoW claims.

Range(seq) == {seq[j] : j \in 1..Len(seq)}

\* The bytes of the buffer a call of dissect_wow was made on.
TvbOf(c) == SubSeq(wow_stream.bytes, c.tvb_start + 1, c.tvb_start + c.tvb_len)

\* The calls of get_wow_pdu_len made for the latest segment, each with the
\* call of dissect_wow it was made in.
ExtractorCalls ==
  UNION {{[c |-> c, g |-> c.result.lens[m]] : m \in 1..Len(c.result.lens)} :
           c \in Range(wow_calls)}

\* C17: for a PDU that starts at position p of the buffer, the length
\* extractor reads the discriminant at p, selects the offset k of the length
\* field, reads the 16-bit little-endian length L at p + k and returns
\* L + k + 2, for every p >= 0.
C17_LengthFromOwnHeader ==
  \A e \in ExtractorCalls :
    LET tvb == TvbOf(e.c)
        p   == e.g.offset
        k   == size_field_offset_of(wow_stream, tvb[p + 1])
        L   == tvb_get_letohs(tvb, p + k)
    IN  k > -1 /\ ~L.exception =>
          ~e.g.exception /\ e.g.len = L.value + k + 2

\* The (start, length) pairs of a sequence of PDUs.
StartLen(pdus) ==
  [j \in 1..Len(pdus) |-> <<pdus[j].start, pdus[j].caplen>>]

\* The PDUs handed to the decoder when the whole stream is one segment.
OneSegmentPdus ==
  PdusOf(tcp_deliver(0, 0, 0, Len(wow_stream.bytes), <<>>).calls)

\* The stream is delivered up to its last byte.
Delivered == wow_stream.bytes # <<>> /\ wow_tcp.delivered = Len(wow_stream.bytes)

\* Every message of the stream carries its length.
AllSized == \A m \in Range(wow_stream.msgs) : m.sized

\* C13: chunking invariance.  For a stream of messages that carry their
\* length, with reassembly enabled, and every split of the stream into
\* segments, the sequence of (start, length) of the PDUs handed to the
\* decoder is the sequence obtained when the stream is one segment.
C13_ChunkingInvariance ==
  wow_desegment /\ AllSized /\ Delivered =>
    StartLen(wow_pdus) = StartLen(OneSegmentPdus)

\* C15: per stream direction the PDUs handed to the decoder are ordered and
\* non-overlapping: each PDU starts exactly where the previous one ended,
\* at increasing stream positions, and no byte belongs to two PDUs.
C15_OrderedContiguous ==
  \A j \in 2..Len(wow_pdus) :
    wow_pdus[j].start = wow_pdus[j - 1].start + wow_pdus[j - 1].caplen

\* C14: with reassembly enabled, a PDU whose type carries a length field is
\* handed to the decoder only when all of its declared bytes, the length
\* returned by the length extractor, are in the buffer; the decoder never
\* gets a prefix of such a PDU.
C14_NoPrefixHandedOver ==
  wow_desegment =>
    \A c \in Range(wow_calls) :
      \A j \in 1..Len(c.result.pdus) :
        c.result.lens # <<>> =>
          /\ j <= Len(c.result.lens)
          /\ c.result.lens[j].offset = c.result.pdus[j].offset
          /\ c.result.pdus[j].len = c.result.lens[j].len
          /\ c.result.pdus[j].caplen = c.result.lens[j].len
          /\ c.result.pdus[j].offset + c.result.lens[j].len <= c.tvb_len

\* A PDU with a length field is handed over from a buffer that holds bytes
\* of an earlier segment, after the dissector had asked for the bytes the
\* PDU was short of.
C14_Witness ==
  /\ wow_desegment
  /\ \E c \in Range(wow_calls) :
       /\ c.tvb_start < wow_tcp.seg_from
       /\ c.result.lens # <<>>
       /\ c.result.pdus # <<>>
       /\ c.result.pdus[1].len > wow_tcp.seg_from - c.tvb_start

\* The offset of the size field that the first byte of a call's buffer
\* selects, or -1.
LeadingOffset(c) == size_field_offset_of(wow_stream, TvbOf(c)[1])

\* C16, as stated: when the leading message has no length field (it is
\* neither a server-to-client CMD_REALM_LIST nor a client-to-server
\* CMD_AUTH_LOGON_CHALLENGE), the decoder is called exactly once on exactly
\* the bytes of the current segment; the length extractor is not called and
\* no reassembly is requested.
C16_SegmentSingleShot ==
  \A c \in Range(wow_calls) :
    LeadingOffset(c) = -1 =>
      /\ c.tvb_start = wow_tcp.seg_from
      /\ c.tvb_len = wow_tcp.delivered - wow_tcp.seg_from
      /\ c.result.pdus = << [offset |-> 0, caplen |-> c.tvb_len,
                             len |-> c.tvb_len] >>
      /\ c.result.lens = <<>>
      /\ c.result.desegment_len = 0

\* C16, amended: when the leading message of the buffer handed to
\* dissect_wow has no length field, the decoder is called exactly once, on
\* exactly the bytes of that buffer; the length extractor is not called and
\* no further reassembly is requested.
C16_NoLengthSingleShot ==
  \A c \in Range(wow_calls) :
    LeadingOffset(c) = -1 =>
      /\ c.result.pdus = << [offset |-> 0, caplen |-> c.tvb_len,
                             len |-> c.tvb_len] >>
      /\ c.result.lens = <<>>
      /\ c.result.desegment_len = 0
      /\ ~c.result.exception

\* A segment of several bytes that starts with a message without a length
\* field and goes on with one that has a length field.
C16_Witness ==
  \E c \in Range(wow_calls) :
    /\ LeadingOffset(c) = -1
    /\ c.tvb_len > 1
    /\ c.tvb_start = wow_tcp.seg_from
    /\ \E p \in 1..(c.tvb_len - 1) :
         size_field_offset_of(wow_stream, TvbOf(c)[p + 1]) > -1

\* The buffer positions at which a call looked for the start of a PDU.
ReachedStarts(c) ==
  {0} \cup {c.result.pdus[j].offset + c.result.pdus[j].len :
              j \in 1..Len(c.result.pdus)}

\* The positions among them where a message with a length field starts and
\* fewer bytes are buffered than its header, length-field offset + 2.
ShortStarts(c) ==
  {p \in ReachedStarts(c) :
     /\ p < c.tvb_len
     /\ size_field_offset_of(wow_stream, TvbOf(c)[p + 1]) > -1
     /\ c.tvb_len - p < size_field_offset_of(wow_stream, TvbOf(c)[p + 1]) + 2}

\* At a short header the length field is not read, the decoder is not
\* called, and the bytes from the PDU's start on are kept for one more
\* segment.
InsufficientData(c, p) ==
  /\ ~c.result.exception
  /\ \A j \in 1..Len(c.result.lens) : c.result.lens[j].offset # p
  /\ \A j \in 1..Len(c.result.pdus) : c.result.pdus[j].offset # p
  /\ c.result.desegment_offset = p
  /\ c.result.desegment_len = DESEGMENT_ONE_MORE_SEGMENT

\* When the next segment arrives after such a report the kept bytes and the
\* segment are dissected together from the PDU's start, and once the header
\* is complete the PDU is framed by the length in its own header.
C18_Retry ==
  wow_tcp.need = DESEGMENT_ONE_MORE_SEGMENT /\ wow_tcp' # wow_tcp =>
    /\ wow_calls' # <<>>
    /\ LET c == wow_calls'[1]
           k == LeadingOffset(c)
       IN  /\ c.tvb_start = wow_tcp.pending_from
           /\ c.tvb_start + c.tvb_len = wow_tcp'.delivered
           /\ k > -1 /\ c.tvb_len >= k + 2 =>
                /\ c.result.lens # <<>>
                /\ c.result.lens[1] =
                     [offset |-> 0, size_field_offset |-> k,
                      exception |-> FALSE,
                      len |-> tvb_get_letohs(TvbOf(c), k).value + k + 2]

----------------------------------------------------------------------------
\* The dispatch claims.

\* C19: when the protocol id or opcode resolves to no decoder, neither in
\* the protocol registrations nor in the string-keyed table, dispatch gives
\* exactly one 'not implemented' diagnostic and consumes the whole body from
\* its first byte: call_ros_oid_callback returns its offset plus the number
\* of remaining bytes.
C19_FallbackConsumesBody ==
  /\ dispatch.done
  /\ dispatch.opdissector = NULL
  /\ dispatch.oid \notin ros_oid_dissector_table
  => /\ dispatch.diagnostics = 1
     /\ dispatch.unknown_ber
     /\ dispatch.ber_from = 0
     /\ ~dispatch.exception
     /\ dispatch.return = Len(dispatch.tvb)

\* C20: when the protocol id is registered and its table holds a decoder
\* for the opcode and the kind of message, neither the string-keyed table
\* nor the structural decoder is used and there is no 'not implemented'
\* diagnostic, whatever the decoder returns.
C20_RegisteredNeverFallsBack ==
  dispatch.done /\ dispatch.opdissector # NULL =>
    /\ ~dispatch.tried_table
    /\ ~dispatch.unknown_ber
    /\ dispatch.diagnostics = 0

Least(S) == CHOOSE j \in S : \A k \in S : j <= k

\* The entries of a table that come before its sentinel.
OprBeforeSentinel(t) ==
  {j \in 1..Len(t) : \A k \in 1..j : t[k].arg_pdu # SENTINEL}
ErrBeforeSentinel(t) ==
  {j \in 1..Len(t) : \A k \in 1..j : t[k].err_pdu # SENTINEL}

\* The decoder of the first entry before the sentinel that has the code.
FirstOprMatch(t, code, argument) ==
  LET m == {j \in OprBeforeSentinel(t) : t[j].opcode = code}
  IN  IF m = {} THEN NULL
      ELSE IF argument THEN t[Least(m)].arg_pdu ELSE t[Least(m)].res_pdu
FirstErrMatch(t, code) ==
  LET m == {j \in ErrBeforeSentinel(t) : t[j].errcode = code}
  IN  IF m = {} THEN NULL ELSE t[Least(m)].err_pdu

\* C22: table lookup is first match wins: the lookup returns the decoder of
\* the first entry, in table order before the sentinel, whose code is the
\* requested one; entries after it and entries after the sentinel do not
\* affect the result; without such an entry, or without a table, the result
\* is absent.
C22_FirstMatchWins ==
  lookup.done =>
    lookup.result =
      IF lookup.kind = "opr"
      THEN FirstOprMatch(lookup.operations, lookup.code, lookup.argument)
      ELSE FirstErrMatch(lookup.errors, lookup.code)

\* A table of operations with the code in two entries before the sentinel
\* and in one after it, each with another decoder for the side asked for.
C22_Witness ==
  /\ lookup.done
  /\ lookup.kind = "opr"
  /\ ~lookup.argument
  /\ Len(lookup.operations) > 3
  /\ lookup.operations[1].opcode = lookup.code
  /\ lookup.operations[1].res_pdu = NULL
  /\ lookup.operations[2].opcode = lookup.code
  /\ lookup.operations[2].res_pdu # NULL
  /\ lookup.operations[3].arg_pdu = SENTINEL
  /\ lookup.operations[3].res_pdu # NULL
  /\ lookup.result = NULL

\* The codes reserved for bind and unbind.
PseudoOpcodes == {op_ros_bind, err_ros_bind}

\* The decoder the tables of a registration hold for a code and a kind of
\* PDU.
DecoderFor(rinfo, ros_op, code) ==
  CASE ROS_OP_PDU(ros_op) = ROS_OP_ARGUMENT ->
         FirstOprMatch(rinfo.opr_code_dissectors, code, TRUE)
    [] ROS_OP_PDU(ros_op) = ROS_OP_RESULT ->
         FirstOprMatch(rinfo.opr_code_dissectors, code, FALSE)
    [] ROS_OP_PDU(ros_op) = ROS_OP_ERROR ->
         FirstErrMatch(rinfo.err_code_dissectors, code)
    [] OTHER -> NULL

\* C23: for a bind and for an unbind of every kind the tables are searched
\* for a reserved pseudo-opcode, not for the opcode bits of the message, and
\* the opcode bits of an ordinary operation are never a pseudo-opcode, so an
\* ordinary operation never resolves to the decoder of bind or unbind.
C23_PseudoOpcodes ==
  (/\ dispatch.done
   /\ dispatch.session.present
   /\ dispatch.oid \in DOMAIN protocol_table) =>
    LET ros_op == dispatch.session.ros_op
        rinfo == protocol_table[dispatch.oid]
        pseudo == IF ROS_OP_PDU(ros_op) = ROS_OP_ERROR
                  THEN err_ros_bind ELSE op_ros_bind
    IN  /\ ROS_OP_OPCODE(ros_op) \notin PseudoOpcodes
        /\ ROS_OP_TYPE(ros_op) \in {ROS_OP_BIND, ROS_OP_UNBIND} =>
             dispatch.opdissector = DecoderFor(rinfo, ros_op, pseudo)
        /\ ROS_OP_TYPE(ros_op) = ROS_OP_INVOKE =>
             dispatch.opdissector =
               DecoderFor(rinfo, ros_op, ROS_OP_OPCODE(ros_op))

\* C24: registration is append-only: a register call never removes or
\* replaces a registration made earlier, also when the same protocol id is
\* registered again, and changes nothing for the other protocol ids; every
\* earlier registration stays resolvable with its original tables.
C24_AppendOnly ==
  [][\A o \in DOMAIN protocol_table :
       /\ o \in DOMAIN protocol_table'
       /\ protocol_table'[o] = protocol_table[o]]_vars

\* The records a table holds, and the records of a session.
RecordsOf(map) == {map[j].value : j \in 1..Len(map)}
SessionRecords(info) == RecordsOf(info.matched) \cup RecordsOf(info.unmatched)

\* C25: session get-or-create: a tuple has one session, made when its first
\* PDU is dissected; every later PDU of the tuple works on that session with
\* the contents of its tables, and no step empties, replaces or removes a
\* session: no session leaves the conversation data and no record leaves a
\* session or the completed table.
C25_SessionGetOrCreate ==
  [][/\ call'.conv \in DOMAIN conv_data'
     /\ DOMAIN conv_data' = DOMAIN conv_data \cup {call'.conv}
     /\ \A c \in DOMAIN conv_data :
          /\ SessionRecords(conv_data[c]) \subseteq SessionRecords(conv_data'[c])
          /\ RecordsOf(conv_data[c].matched) \subseteq
               RecordsOf(conv_data'[c].matched)
     /\ call'.conv \in DOMAIN conv_data =>
          conv_data'[call'.conv] =
            ros_match_call_response(heap, conv_data, call'.conv, call'.num,
                                    call'.abs_ts, call'.invokeId,
                                    call'.isInvoke).info]_vars

\* Both tuples have a session, and one of them holds a completed and a
\* pending record after three PDUs of its own.
C25_Witness ==
  /\ DOMAIN conv_data = Tuples
  /\ \E c \in Tuples :
       /\ Len(conv_data[c].matched) = 1
       /\ Len(conv_data[c].unmatched) = 1
       /\ call.conv # c

\* The conversation data with the tables of every tuple but c emptied, and
\* with a session for c.
OnlySession(cd, c) ==
  [d \in DOMAIN cd \cup {c} |->
     IF d = c /\ c \in DOMAIN cd THEN cd[c] ELSE new_ros_info]

\* C26: session isolation: a PDU processed for tuple A leaves the tables
\* and the records of every other tuple as they were, what it returns and
\* annotates is what A's tables alone give, and the record returned is one
\* of A's session, so equal ids of two sessions are never correlated.
C26_SessionIsolation ==
  [][LET a == call'.conv
         alone == ros_match_call_response(heap, OnlySession(conv_data, a), a,
                                          call'.num, call'.abs_ts,
                                          call'.invokeId, call'.isInvoke)
     IN  /\ \A b \in DOMAIN conv_data \ {a} :
               /\ b \in DOMAIN conv_data'
               /\ conv_data'[b] = conv_data[b]
               /\ \A q \in SessionRecords(conv_data[b]) : heap'[q] = heap[q]
         /\ a \in DOMAIN conv_data'
         /\ ret' = alone.ret
         /\ items' = alone.items
         /\ conv_data'[a] = alone.info
         /\ ret' # NULL => ret' \in SessionRecords(conv_data'[a])]_vars

\* A result of one tuple is matched while the other tuple has an exchange
\* of the same id, completed or pending.
C26_Witness ==
  /\ ret # NULL
  /\ ~call.isInvoke
  /\ \E b \in DOMAIN conv_data \ {call.conv} :
       \E q \in SessionRecords(conv_data[b]) :
         heap[q].invokeId = call.invokeId

\* A decoder step of the call consumed nothing.
Stalled == \E j \in 1..Len(pdu_loop.steps) : pdu_loop.steps[j] = 0

MatchedOf(cd, c) == IF c \in DOMAIN cd THEN cd[c].matched ELSE <<>>

\* C28: an invoke of id i in frame f at time t, in a session whose completed
\* table has no record of i with request frame f: nothing is returned and
\* nothing annotated; afterwards the pending table holds one record of i,
\* with request frame f, request time t, response frame 0 and the direction
\* of a request, whether or not a pending record of i was there before; the
\* completed table and its records are unchanged.
C28_Step ==
  LET c == call'.conv
      i == call'.invokeId
  IN  ( /\ call'.isInvoke
        /\ \A a \in Completed(conv_data, heap, c, i) :
             heap[a].req_frame # call'.num )
      => /\ ret' = NULL
         /\ items' = <<>>
         /\ Cardinality({k \in 1..Len(conv_data'[c].unmatched) :
               heap'[conv_data'[c].unmatched[k].key].invokeId = i}) = 1
         /\ \A a \in Pending(conv_data', heap', c, i) :
               heap'[a] = [invokeId |-> i, req_frame |-> call'.num,
                           req_time |-> call'.abs_ts, rep_frame |-> 0,
                           is_request |-> TRUE]
         /\ conv_data'[c].matched = MatchedOf(conv_data, c)
         /\ \A a \in RecordsOf(MatchedOf(conv_data, c)) : heap'[a] = heap[a]

C28_RecordInvoke == [][C28_Step]_vars

\* An invoke has just been recorded over a pending invoke of its id, in a
\* session that holds a completed exchange of that id from another frame.
C28_Witness ==
  /\ call.isInvoke
  /\ ret = NULL
  /\ Completed(conv_data, heap, call.conv, call.invokeId) # {}
  /\ \E a \in Pending(conv_data, heap, call.conv, call.invokeId) :
       heap[a].req_frame = call.num
  /\ \E n \in 1..Len(capture) :
       /\ n < call.num
       /\ capture[n].conv = call.conv
       /\ capture[n].invokeId = call.invokeId
       /\ capture[n].isInvoke
       /\ \A a \in Completed(conv_data, heap, call.conv, call.invokeId) :
            heap[a].req_frame # n

\* C29: a result of id i in frame f, in a session with no completed record
\* of i and a pending record r of i: afterwards i is absent from the pending
\* table, r is in the completed table with its request frame and request
\* time unchanged, response frame f and the direction of a response, and r
\* is the record returned.
C29_Step ==
  LET c == call'.conv
      i == call'.invokeId
  IN  ( /\ ~call'.isInvoke
        /\ Completed(conv_data, heap, c, i) = {}
        /\ Pending(conv_data, heap, c, i) # {} )
      => /\ Pending(conv_data', heap', c, i) = {}
         /\ ret' \in Pending(conv_data, heap, c, i)
         /\ Completed(conv_data', heap', c, i) = {ret'}
         /\ heap'[ret'] = [heap[ret'] EXCEPT !.rep_frame = call'.num,
                                             !.is_request = FALSE]

C29_RecordResult == [][C29_Step]_vars

\* A result has just promoted the pending record of its id.
C29_Witness ==
  /\ ~call.isInvoke
  /\ ret # NULL
  /\ heap[ret].rep_frame = call.num
  /\ heap[ret].req_frame # 0
  /\ Pending(conv_data, heap, call.conv, call.invokeId) = {}
  /\ ret \in Completed(conv_data, heap, call.conv, call.invokeId)

\* C30: the side of the annotation follows the kind of the message that is
\* examined: a record returned for an invoke is annotated 'response in' its
\* response frame, without a time; a record returned for a result is
\* annotated 'response to' its request frame with the time of the examined
\* frame minus the request time; in any order of examining again the
\* invoke and result frames of an exchange.
C30_AnnotationSide ==
  ret # NULL =>
    items =
      IF call.isInvoke
      THEN << [hf |-> "ros.response_in", value |-> heap[ret].rep_frame] >>
      ELSE << [hf |-> "ros.response_to", value |-> heap[ret].req_frame],
              [hf |-> "ros.time", value |-> call.abs_ts - heap[ret].req_time] >>

\* A result is given the record of an exchange that an earlier frame
\* completed.
C30_Witness ==
  /\ ret # NULL
  /\ ~call.isInvoke
  /\ heap[ret].rep_frame # call.num
  /\ Len(items) = 2
  /\ \E n \in 1..Len(capture) :
       /\ n = heap[ret].req_frame
       /\ n < call.num

\* C31: the decoder is selected by the kind of the message: the argument or
\* the result decoder of the operation entry of the code, or the decoder of
\* the error entry of the code, a bind being looked up under the bind code
\* and a bind error under the bind-error code; every other kind, no
\* session, no protocol id and a protocol id that is not registered give no
\* decoder, and then no decoder of a protocol is called.
C31_ResolveByKind ==
  dispatch.done =>
    LET ros_op == dispatch.session.ros_op
        code == IF ROS_OP_TYPE(ros_op) # ROS_OP_BIND THEN ROS_OP_OPCODE(ros_op)
                ELSE IF ROS_OP_PDU(ros_op) = ROS_OP_ERROR THEN err_ros_bind
                ELSE op_ros_bind
    IN  /\ dispatch.opdissector =
             IF /\ dispatch.session.present
                /\ dispatch.oid # ""
                /\ dispatch.oid \in DOMAIN protocol_table
             THEN DecoderFor(protocol_table[dispatch.oid], ros_op, code)
             ELSE NULL
        /\ dispatch.opdissector = NULL => dispatch.try_len = 0

\* A bind error has been resolved to the decoder of the bind-error entry of
\* the table of errors.
C31_Witness ==
  /\ dispatch.done
  /\ dispatch.session.present
  /\ ROS_OP_TYPE(dispatch.session.ros_op) = ROS_OP_BIND
  /\ ROS_OP_PDU(dispatch.session.ros_op) = ROS_OP_ERROR
  /\ dispatch.oid \in DOMAIN protocol_table
  /\ dispatch.opdissector = 6
  /\ dispatch.try_len > 0

\* C32: the correlator never creates session state: called for a frame of
\* a connection with no ROS session attached, for an invoke and for a
\* result alike, it returns no record, adds no annotation, and creates or
\* changes no table and no record.
C32_Step ==
  (capture' # capture /\ call'.conv \notin DOMAIN conv_data) =>
    /\ ret' = NULL
    /\ items' = <<>>
    /\ conv_data' = conv_data
    /\ heap' = heap

C32_NoSessionNoEffect == [][C32_Step]_vars

\* The correlator has been called for a connection without a session while
\* the other connection has a session with a pending invoke of the same id.
C32_Witness ==
  /\ call.num > 0
  /\ call.conv \notin DOMAIN conv_data
  /\ ret = NULL
  /\ \E b \in DOMAIN conv_data :
       Pending(conv_data, heap, b, call.invokeId) # {}

\* C33: the completed table of a session holds at most one record of an
\* invoke id, and once an id has a completed record no pending record of the
\* id is promoted: the completed records of the id stay the same and every
\* later result of the id returns the first completed record.
C33_OneCompleted ==
  \A c \in DOMAIN conv_data, i \in InvokeIds :
    Cardinality({k \in 1..Len(conv_data[c].matched) :
                   heap[conv_data[c].matched[k].key].invokeId = i}) <= 1

C33_Step ==
  \A c \in Tuples, i \in InvokeIds :
    Completed(conv_data, heap, c, i) # {} =>
      /\ Completed(conv_data', heap', c, i) = Completed(conv_data, heap, c, i)
      /\ (~call'.isInvoke /\ call'.conv = c /\ call'.invokeId = i) =>
           ret' \in Completed(conv_data, heap, c, i)

C33_OneCompletedPerId == []C33_OneCompleted /\ [][C33_Step]_vars

\* After a completed exchange a new invoke of the id is pending, and a later
\* result of the id has been given the completed record.
C33_Witness ==
  /\ ~call.isInvoke
  /\ ret # NULL
  /\ heap[ret].rep_frame # call.num
  /\ ret \in Completed(conv_data, heap, call.conv, call.invokeId)
  /\ \E a \in Pending(conv_data, heap, call.conv, call.invokeId) :
       /\ heap[a].req_frame > heap[ret].rep_frame
       /\ heap[a].req_frame < call.num

\* C34: the table a record is in determines its shape: a record of the
\* pending table has response frame 0, the direction of a request and a
\* request frame that is not 0; a record of the completed table has a
\* request frame and a response frame that are not 0; hence a pending
\* record that a result finds is always promoted.
C34_Shape ==
  \A c \in DOMAIN conv_data :
    /\ \A a \in RecordsOf(conv_data[c].unmatched) :
         /\ heap[a].rep_frame = 0
         /\ heap[a].is_request
         /\ heap[a].req_frame > 0
    /\ \A a \in RecordsOf(conv_data[c].matched) :
         /\ heap[a].req_frame > 0
         /\ heap[a].rep_frame > 0

C34_Step ==
  LET c == call'.conv
      i == call'.invokeId
  IN  ( /\ ~call'.isInvoke
        /\ Completed(conv_data, heap, c, i) = {}
        /\ Pending(conv_data, heap, c, i) # {} )
      => /\ ret' \in Completed(conv_data', heap', c, i)
         /\ ret' \notin RecordsOf(conv_data'[c].unmatched)

C34_ShapeByTable == []C34_Shape /\ [][C34_Step]_vars

\* A session holds a completed and a pending record, and a result has just
\* promoted a pending record.
C34_Witness ==
  /\ ~call.isInvoke
  /\ ret # NULL
  /\ heap[ret].rep_frame = call.num
  /\ \E c \in DOMAIN conv_data :
       /\ conv_data[c].unmatched # <<>>
       /\ conv_data[c].matched # <<>>

\* C35: whenever get_wow_pdu_len reads the length field an offset of the
\* field has been selected, 1 or 2 and never the initial -1: it is called
\* only at the start of a PDU whose direction and command denote a message
\* with a length field, for every PDU of a segment and not only the first.
C35_OffsetSelected ==
  \A j \in 1..Len(wow_calls) :
    \A k \in 1..Len(wow_calls[j].result.lens) :
      wow_calls[j].result.lens[k].size_field_offset \in {1, 2}

\* The fixed header length dissect_wow hands to tcp_dissect_pdus in a call.
FixedLenOf(c) == size_field_offset_of(wow_stream, TvbOf(c)[1]) + 2

\* C36: every length get_wow_pdu_len returns is at least the fixed header
\* length handed to the reassembly loop and at most 65535 + 4, the 16-bit
\* length taken without wrap-around, so that every framed PDU has a
\* positive length and the PDUs of a buffer follow each other.
C36_LengthBounds ==
  \A e \in ExtractorCalls :
    ~e.g.exception =>
      /\ e.g.len >= FixedLenOf(e.c)
      /\ e.g.len <= 65535 + 4
      /\ e.g.len >= e.g.size_field_offset + 2
      /\ \A j \in 1..Len(e.c.result.pdus) :
           /\ e.c.result.pdus[j].len > 0
           /\ j > 1 => e.c.result.pdus[j].offset =
                         e.c.result.pdus[j - 1].offset
                           + e.c.result.pdus[j - 1].len

\* The protocol version a run has stored: 2 until one is stored.
StoredVersion(protocol_version) ==
  IF protocol_version.attached THEN protocol_version.version ELSE 2

\* C37: the stored protocol version of a connection (2 by default, then
\* the version byte of the latest client-to-server logon or reconnect
\* challenge) after any sequence of PDUs does not depend on whether a tree
\* was asked for: two runs over the same PDUs that differ only in the tree
\* argument have stored the same version.
C37_TreeIndependent ==
  StoredVersion(wow_runs.protocol_version[1]) =
    StoredVersion(wow_runs.protocol_version[2])

=============================================================================
